---- MODULE Spec2Model ----
(***************************************************************************)
(* LifeOS: the shared SQLite connection (app/db/sqlite.py), its schema     *)
(* initialisation and migrations, the tag normaliser (app/utils/tags.py)   *)
(* and the notes / tasks tools (app/services).                             *)
(*                                                                         *)
(* The module holds several specifications over one set of variables:      *)
(*   SpecDb      get_database called by concurrent coroutines              *)
(*   SpecSchema  _init_schema run on a fresh or legacy store               *)
(*   SpecTags    normalize_tags and friends applied to bounded inputs      *)
(*   SpecDal     the notes and tasks tools acting on the tables            *)
(* Each specification leaves the variables of the others at their idle     *)
(* values.                                                                 *)
(***************************************************************************)
EXTENDS Integers, Sequences, FiniteSets, TLC

VARIABLES
    db,            \* _db: 0 is None, otherwise the id of the stored connection
    db_lock,       \* _db_lock: TRUE while some coroutine holds it
    lock_waiters,  \* FIFO of coroutines suspended in _db_lock.acquire()
    pc,            \* where each caller of get_database is
    conn,          \* the local variable conn of each caller (0: none yet)
    got,           \* what get_database returned to each caller (0: nothing)
    waited,        \* the caller had to wait for _db_lock
    started,       \* the caller started an initialisation sequence
    nConn,         \* connections opened so far (ids are 1..nConn)
    nStored,       \* number of assignments _db = conn so far
    schemaRuns,    \* calls of _init_schema so far
    schemaDone,    \* calls of _init_schema that completed
    nFail,         \* initialisation attempts that raised
    store,         \* the SQLite file: tables, columns, rows, indexes, last error
    orig,          \* the store as it was before the first _init_schema
    first,         \* the store as the first _init_schema left it
    runs,          \* calls of _init_schema on the store so far
    tagX,          \* the value handed to normalize_tags
    tagY,          \* normalize_tags(tagX)
    tagZ,          \* normalize_tags(tagY)
    tagStep,       \* how many of the two calls were made
    notes,         \* table notes: id -> row
    tasks,         \* table tasks: id -> row
    events,        \* table events: id -> row
    seq,           \* sqlite_sequence: the highest id ever given, per table
    clock,         \* CURRENT_TIMESTAMP
    ret,           \* the last tool call: its name, arguments and result
    hist,          \* how often each id was returned by a create, by a delete
    jobs           \* the tool calls in flight on the event loop, per caller

dbVars == <<db, db_lock, lock_waiters, pc, conn, got, waited, started,
            nConn, nStored, schemaRuns, schemaDone, nFail>>

schVars == <<store, orig, first, runs>>

tagVars == <<tagX, tagY, tagZ, tagStep>>

dalVars == <<notes, tasks, events, seq, clock, ret, hist>>

jobVars == <<jobs>>

vars == <<dbVars, schVars, tagVars, dalVars, jobVars>>

\* What each specification leaves alone (the tools change _db only).
notDbVars == <<schVars, tagVars, dalVars, jobVars>>
notSchVars == <<dbVars, tagVars, dalVars, jobVars>>
notTagVars == <<dbVars, schVars, dalVars, jobVars>>
notDalVars == <<db_lock, lock_waiters, pc, conn, got, waited, started, nConn,
                nStored, schemaRuns, schemaDone, nFail, schVars, tagVars, jobVars>>
notJobVars == <<db_lock, lock_waiters, pc, conn, got, waited, started, nConn,
                nStored, schemaRuns, schemaDone, nFail, schVars, tagVars,
                seq, clock, ret>>

(***************************************************************************)
(* Bounds                                                                  *)
(***************************************************************************)
NCallers == 3
MaxFail == 2
MaxRows == 1
MaxRuns == 2
MaxStrLen == 3
MaxId == 2
MaxTasks == 5
MaxClock == 1
PrioSpan == 2
NJobs == 3

Callers == 1..NCallers

(***************************************************************************)
(* get_database  (app/db/sqlite.py 197-221)                                *)
(* Coroutines run on one event loop: a step runs from one await to the     *)
(* next.                                                                   *)
(***************************************************************************)
DbInit ==
    /\ db = 0
    /\ db_lock = FALSE
    /\ lock_waiters = <<>>
    /\ pc = [c \in Callers |-> "idle"]
    /\ conn = [c \in Callers |-> 0]
    /\ got = [c \in Callers |-> 0]
    /\ waited = [c \in Callers |-> FALSE]
    /\ started = [c \in Callers |-> FALSE]
    /\ nConn = 0
    /\ nStored = 0
    /\ schemaRuns = 0
    /\ schemaDone = 0
    /\ nFail = 0

DbIdle == DbInit

\* line 205-208 once the lock is held: the second check of _db, and either the
\* return of the cached handle (releasing the lock) or the start of an
\* initialisation sequence, which runs up to `await aiosqlite.connect`.
CheckUnderLockNoRecheck(c) ==
    /\ db_lock' = TRUE
    /\ pc' = [pc EXCEPT ![c] = "connect"]
    /\ started' = [started EXCEPT ![c] = TRUE]
    /\ UNCHANGED got

CheckUnderLock(c) ==
    IF db # 0
    THEN /\ got' = [got EXCEPT ![c] = db]
         /\ pc' = [pc EXCEPT ![c] = "returned"]
         /\ db_lock' = FALSE
         /\ UNCHANGED started
    ELSE /\ db_lock' = TRUE
         /\ pc' = [pc EXCEPT ![c] = "connect"]
         /\ started' = [started EXCEPT ![c] = TRUE]
         /\ UNCHANGED got

\* lines 201-204: the unlocked fast path, then `async with _db_lock`.
\* asyncio.Lock.acquire takes a free lock with no waiters without suspending.
Call(c) ==
    /\ UNCHANGED notDbVars
    /\ pc[c] = "idle"
    /\ IF db # 0
       THEN /\ got' = [got EXCEPT ![c] = db]
            /\ pc' = [pc EXCEPT ![c] = "returned"]
            /\ UNCHANGED <<db_lock, lock_waiters, waited, started>>
       ELSE IF db_lock \/ lock_waiters # <<>>
       THEN /\ lock_waiters' = Append(lock_waiters, c)
            /\ waited' = [waited EXCEPT ![c] = TRUE]
            /\ pc' = [pc EXCEPT ![c] = "waiting"]
            /\ UNCHANGED <<db_lock, got, started>>
       ELSE /\ CheckUnderLock(c)
            /\ UNCHANGED <<lock_waiters, waited>>
    /\ UNCHANGED <<db, conn, nConn, nStored, schemaRuns, schemaDone, nFail>>
    /\ UNCHANGED schVars

\* line 204: the first waiter is woken when the lock is released.
Acquire(c) ==
    /\ UNCHANGED notDbVars
    /\ pc[c] = "waiting"
    /\ ~db_lock
    /\ lock_waiters # <<>> /\ Head(lock_waiters) = c
    /\ lock_waiters' = Tail(lock_waiters)
    /\ CheckUnderLock(c)
    /\ UNCHANGED <<db, conn, waited, nConn, nStored, schemaRuns, schemaDone, nFail>>

\* the same without the exit of `async with`: the lock stays held
RaiseHoldingLock(c) ==
    /\ nFail < MaxFail
    /\ nFail' = nFail + 1
    /\ pc' = [pc EXCEPT ![c] = "raised"]
    /\ db_lock' = db_lock

\* lines 219-221 and the exit of `async with`: the exception is logged and
\* re-raised, the lock is released, _db is left as it was.
Raise(c) ==
    /\ nFail < MaxFail
    /\ nFail' = nFail + 1
    /\ pc' = [pc EXCEPT ![c] = "raised"]
    /\ db_lock' = FALSE

\* line 210: await aiosqlite.connect(db_path)
ConnectOk(c) ==
    /\ UNCHANGED notDbVars
    /\ pc[c] = "connect"
    /\ nConn' = nConn + 1
    /\ conn' = [conn EXCEPT ![c] = nConn + 1]
    /\ pc' = [pc EXCEPT ![c] = "pragma"]
    /\ UNCHANGED <<db, db_lock, lock_waiters, got, waited, started, nStored,
                   schemaRuns, schemaDone, nFail>>

ConnectFail(c) ==
    /\ UNCHANGED notDbVars
    /\ pc[c] = "connect"
    /\ Raise(c)
    /\ UNCHANGED <<db, lock_waiters, conn, got, waited, started, nConn, nStored,
                   schemaRuns, schemaDone>>

\* lines 211-215: the three PRAGMA statements, then _init_schema is entered.
PragmaOk(c) ==
    /\ UNCHANGED notDbVars
    /\ pc[c] = "pragma"
    /\ schemaRuns' = schemaRuns + 1
    /\ pc' = [pc EXCEPT ![c] = "schema"]
    /\ UNCHANGED <<db, db_lock, lock_waiters, conn, got, waited, started, nConn,
                   nStored, schemaDone, nFail>>

PragmaFail(c) ==
    /\ UNCHANGED notDbVars
    /\ pc[c] = "pragma"
    /\ Raise(c)
    /\ UNCHANGED <<db, lock_waiters, conn, got, waited, started, nConn, nStored,
                   schemaRuns, schemaDone>>

\* lines 215-218: _init_schema completes, _db = conn, return _db (lock released).
StoreHandle(c) ==
    /\ db' = conn[c]
    /\ nStored' = nStored + 1
    /\ got' = [got EXCEPT ![c] = conn[c]]

SchemaOk(c) ==
    /\ UNCHANGED notDbVars
    /\ pc[c] = "schema"
    /\ schemaDone' = schemaDone + 1
    /\ StoreHandle(c)
    /\ pc' = [pc EXCEPT ![c] = "returned"]
    /\ db_lock' = FALSE
    /\ UNCHANGED <<lock_waiters, conn, waited, started, nConn, schemaRuns, nFail>>

SchemaFail(c) ==
    /\ UNCHANGED notDbVars
    /\ pc[c] = "schema"
    /\ Raise(c)
    /\ UNCHANGED <<db, lock_waiters, conn, got, waited, started, nConn, nStored,
                   schemaRuns, schemaDone>>

DbNext ==
    \E c \in Callers :
        \/ Call(c)
        \/ Acquire(c)
        \/ ConnectOk(c)
        \/ ConnectFail(c)
        \/ PragmaOk(c)
        \/ PragmaFail(c)
        \/ SchemaOk(c)
        \/ SchemaFail(c)

(***************************************************************************)
(* The store and the SQL statements the schema code issues                 *)
(* (app/db/sqlite.py 15-194).  Every value is a string; NULL is "NULL".    *)
(***************************************************************************)
NULL == "NULL"
Tables == {"notes", "events", "tasks"}

\* The column definitions of the CREATE TABLE statements: name and the value
\* a row gets when the column is not supplied (its DEFAULT, else NULL).
TableColumns(t) ==
    CASE t = "notes" ->
           << <<"id", "auto">>, <<"title", NULL>>, <<"content", "">>,
              <<"tags", "">>, <<"pinned", "0">>, <<"created_at", "now">>,
              <<"updated_at", "now">> >>
      [] t = "events" ->
           << <<"id", "auto">>, <<"title", NULL>>, <<"start", NULL>>,
              <<"end", NULL>>, <<"location", "">>, <<"description", "">>,
              <<"all_day", "0">>, <<"created_at", "now">>,
              <<"updated_at", "now">> >>
      [] t = "tasks" ->
           << <<"id", "auto">>, <<"title", NULL>>, <<"description", "">>,
              <<"status", "pending">>, <<"priority", "3">>, <<"due_at", NULL>>,
              <<"tags", "">>, <<"created_at", "now">>, <<"updated_at", "now">> >>

ColumnNames(t) == {TableColumns(t)[i][1] : i \in DOMAIN TableColumns(t)}

\* op: create_table | create_index | add_column | update_null | copy_null
\* guarded: IF NOT EXISTS for a CREATE, WHERE col IS NULL for an UPDATE.
Stmt(op, table, name, col, val, guarded) ==
    [op |-> op, table |-> table, name |-> name, col |-> col, val |-> val,
     guarded |-> guarded]

CreateTable(t) == Stmt("create_table", t, t, "", "", TRUE)
CreateIndex(n, t, c) == Stmt("create_index", t, n, c, "", TRUE)
CreateIndexPlain(n, t, c) == Stmt("create_index", t, n, c, "", FALSE)
AddColumn(t, c, dflt) == Stmt("add_column", t, c, c, dflt, TRUE)
UpdateNull(t, c, v) == Stmt("update_null", t, c, c, v, TRUE)
UpdateAll(t, c, v) == Stmt("update_null", t, c, c, v, FALSE)
CopyNull(t, c, from) == Stmt("copy_null", t, c, c, from, TRUE)

NotesIndexes ==
    << <<"idx_notes_title", "notes", "title">>,
       <<"idx_notes_created_at", "notes", "created_at">>,
       <<"idx_notes_updated_at", "notes", "updated_at">>,
       <<"idx_notes_pinned", "notes", "pinned">> >>
EventsIndexes ==
    << <<"idx_events_start", "events", "start">>,
       <<"idx_events_created_at", "events", "created_at">>,
       <<"idx_events_updated_at", "events", "updated_at">> >>
TasksIndexes ==
    << <<"idx_tasks_status", "tasks", "status">>,
       <<"idx_tasks_due_at", "tasks", "due_at">>,
       <<"idx_tasks_priority", "tasks", "priority">>,
       <<"idx_tasks_updated_at", "tasks", "updated_at">> >>

IndexStmts(ix) == [i \in DOMAIN ix |-> CreateIndex(ix[i][1], ix[i][2], ix[i][3])]
IndexStmtsPlain(ix) ==
    [i \in DOMAIN ix |-> CreateIndexPlain(ix[i][1], ix[i][2], ix[i][3])]

\* _SCHEMA_SQL, lines 15-63.
SCHEMA_SQL_PlainIndexes ==
    <<CreateTable("notes")>> \o IndexStmtsPlain(NotesIndexes)
    \o <<CreateTable("events")>> \o IndexStmtsPlain(EventsIndexes)
    \o <<CreateTable("tasks")>> \o IndexStmtsPlain(TasksIndexes)

SCHEMA_SQL ==
    <<CreateTable("notes")>> \o IndexStmts(NotesIndexes)
    \o <<CreateTable("events")>> \o IndexStmts(EventsIndexes)
    \o <<CreateTable("tasks")>> \o IndexStmts(TasksIndexes)

\* The dicts passed to _ensure_columns, lines 125-155: column and the value
\* existing rows get (the DEFAULT of a NOT NULL column, NULL otherwise).
MigrationColumns(t) ==
    CASE t = "notes" ->
           << <<"tags", "">>, <<"pinned", "0">>, <<"updated_at", NULL>> >>
      [] t = "events" ->
           << <<"location", "">>, <<"description", "">>, <<"all_day", "0">>,
              <<"updated_at", NULL>> >>
      [] t = "tasks" ->
           << <<"description", "">>, <<"status", "pending">>,
              <<"priority", "3">>, <<"due_at", NULL>>, <<"tags", "">>,
              <<"updated_at", NULL>> >>

OptionalColumns(t) == {MigrationColumns(t)[i][1] : i \in DOMAIN MigrationColumns(t)}

\* The index script of _run_migrations, lines 157-173.
MigrationIndexes ==
    IndexStmts(NotesIndexes) \o IndexStmts(EventsIndexes) \o IndexStmts(TasksIndexes)

\* The UPDATE statements of _run_migrations, lines 175-186 and 189-194.
NotesEventsBackfillNoWhere ==
    << CopyNull("notes", "updated_at", "created_at"),
       UpdateNull("notes", "tags", ""),
       UpdateAll("notes", "pinned", "0"),
       CopyNull("events", "updated_at", "created_at"),
       UpdateNull("events", "location", ""),
       UpdateNull("events", "description", ""),
       UpdateNull("events", "all_day", "0") >>

NotesEventsBackfill ==
    << CopyNull("notes", "updated_at", "created_at"),
       UpdateNull("notes", "tags", ""),
       UpdateNull("notes", "pinned", "0"),
       CopyNull("events", "updated_at", "created_at"),
       UpdateNull("events", "location", ""),
       UpdateNull("events", "description", ""),
       UpdateNull("events", "all_day", "0") >>

TasksBackfillNoPriority ==
    << CopyNull("tasks", "updated_at", "created_at"),
       UpdateNull("tasks", "tags", ""),
       UpdateNull("tasks", "status", "pending") >>

TasksBackfill ==
    << CopyNull("tasks", "updated_at", "created_at"),
       UpdateNull("tasks", "tags", ""),
       UpdateNull("tasks", "status", "pending"),
       UpdateNull("tasks", "priority", "3") >>

(***************************************************************************)
(* What SQLite does with one statement.  A failed statement raises: the    *)
(* store keeps what earlier statements did and err is set.                 *)
(***************************************************************************)
Failed(st) == [st EXCEPT !.err = TRUE]

SetTable(st, t, tb) == [st EXCEPT !.tab[t] = tb]

ExecCreateTable(st, s) ==
    IF st.tab[s.table].exists
    THEN IF s.guarded THEN st ELSE Failed(st)
    ELSE SetTable(st, s.table,
                  [exists |-> TRUE, cols |-> ColumnNames(s.table), rows |-> <<>>])

\* The table is looked up first, then the index name, then the column.
ExecCreateIndex(st, s) ==
    IF ~st.tab[s.table].exists THEN Failed(st)
    ELSE IF s.name \in st.idx THEN (IF s.guarded THEN st ELSE Failed(st))
    ELSE IF s.col \notin st.tab[s.table].cols THEN Failed(st)
    ELSE [st EXCEPT !.idx = @ \cup {s.name}]

ExecAddColumn(st, s) ==
    LET tb == st.tab[s.table] IN
    IF ~tb.exists \/ s.col \in tb.cols THEN Failed(st)
    ELSE SetTable(st, s.table,
           [tb EXCEPT
              !.cols = @ \cup {s.col},
              !.rows = [i \in DOMAIN tb.rows |->
                          [c \in tb.cols \cup {s.col} |->
                              IF c = s.col THEN s.val ELSE tb.rows[i][c]]]])

ExecUpdate(st, s) ==
    LET tb == st.tab[s.table] IN
    IF ~tb.exists \/ s.col \notin tb.cols THEN Failed(st)
    ELSE IF s.op = "copy_null" /\ s.val \notin tb.cols THEN Failed(st)
    ELSE SetTable(st, s.table,
           [tb EXCEPT
              !.rows = [i \in DOMAIN tb.rows |->
                          IF s.guarded /\ tb.rows[i][s.col] # NULL
                          THEN tb.rows[i]
                          ELSE [tb.rows[i] EXCEPT
                                  ![s.col] = IF s.op = "copy_null"
                                             THEN tb.rows[i][s.val]
                                             ELSE s.val]]])

ExecStmt(st, s) ==
    IF st.err THEN st
    ELSE CASE s.op = "create_table" -> ExecCreateTable(st, s)
           [] s.op = "create_index" -> ExecCreateIndex(st, s)
           [] s.op = "add_column" -> ExecAddColumn(st, s)
           [] OTHER -> ExecUpdate(st, s)

RECURSIVE ExecScript(_, _)
ExecScript(st, script) ==
    IF script = <<>> THEN st
    ELSE ExecScript(ExecStmt(st, Head(script)), Tail(script))

\* _table_exists, lines 100-106.
TableExists(st, t) == st.tab[t].exists

\* _ensure_columns, lines 109-121: the existing columns are read once, then
\* one ALTER TABLE per missing column, in the order of the dict.
EnsureColumns(st, t) ==
    IF st.err \/ ~TableExists(st, t) THEN st
    ELSE LET existing == st.tab[t].cols
             columns == MigrationColumns(t)
             missing == SelectSeq(columns, LAMBDA cd : cd[1] \notin existing)
         IN ExecScript(st, [i \in DOMAIN missing |->
                               AddColumn(t, missing[i][1], missing[i][2])])

\* _run_migrations, lines 124-194.
RunMigrations(st) ==
    LET s1 == EnsureColumns(st, "notes")
        s2 == EnsureColumns(s1, "events")
        s3 == EnsureColumns(s2, "tasks")
        s4 == ExecScript(s3, MigrationIndexes)
        s5 == ExecScript(s4, NotesEventsBackfill)
    IN IF s5.err \/ ~TableExists(s5, "tasks") THEN s5
       ELSE ExecScript(s5, TasksBackfill)

\* _init_schema, lines 94-97, on a new connection to the store.
InitSchema(st) ==
    RunMigrations(ExecScript([st EXCEPT !.err = FALSE], SCHEMA_SQL))

(***************************************************************************)
(* The stores _init_schema may meet: a table is absent (fresh file), or    *)
(* was created by an older version without some of the columns that        *)
(* _run_migrations knows how to add; a column that is present may hold     *)
(* NULL in a row written before the column had a default.                  *)
(***************************************************************************)
SampleValue(c) ==
    CASE c = "title" -> "t"
      [] c = "content" -> "c"
      [] c = "start" -> "s"
      [] c = "end" -> "e"
      [] c = "tags" -> "x"
      [] c = "pinned" -> "1"
      [] c = "all_day" -> "1"
      [] c = "updated_at" -> "u"
      [] c = "location" -> "l"
      [] c = "description" -> "d"
      [] c = "status" -> "done"
      [] c = "priority" -> "5"
      [] c = "due_at" -> "d"
      [] OTHER -> "v"

LegacyRow(cols, i, nulls) ==
    [c \in cols |->
        IF c \in {"id", "created_at"} THEN ToString(i)
        ELSE IF c \in nulls THEN NULL
        ELSE SampleValue(c)]

AbsentTable == [exists |-> FALSE, cols |-> {}, rows |-> <<>>]

LegacyTables(t) ==
    {AbsentTable} \cup
    UNION { LET cols == ColumnNames(t) \ missing IN
            UNION { { [exists |-> TRUE, cols |-> cols,
                       rows |-> [i \in 1..n |-> LegacyRow(cols, i, nulls[i])]]
                      : nulls \in [1..n -> SUBSET (cols \cap OptionalColumns(t))] }
                    : n \in 0..MaxRows }
            : missing \in SUBSET OptionalColumns(t) }

PlainTables(t) ==
    { AbsentTable,
      [exists |-> TRUE, cols |-> ColumnNames(t), rows |-> <<>>],
      [exists |-> TRUE, cols |-> ColumnNames(t) \ OptionalColumns(t), rows |-> <<>>] }

AllIndexes == NotesIndexes \o EventsIndexes \o TasksIndexes

IndexesFor(tab) ==
    {AllIndexes[i][1] : i \in {j \in DOMAIN AllIndexes :
        /\ tab[AllIndexes[j][2]].exists
        /\ AllIndexes[j][3] \in tab[AllIndexes[j][2]].cols}}

ShapesOf(t, focus) == IF t = focus THEN LegacyTables(t) ELSE PlainTables(t)

SchInit ==
    /\ \E focus \in Tables :
         \E n \in ShapesOf("notes", focus), e \in ShapesOf("events", focus),
            k \in ShapesOf("tasks", focus), withIdx \in BOOLEAN :
             LET tab == [notes |-> n, events |-> e, tasks |-> k] IN
             store = [tab |-> tab,
                      idx |-> IF withIdx THEN IndexesFor(tab) ELSE {},
                      err |-> FALSE]
    /\ orig = store
    /\ first = store
    /\ runs = 0

SchIdle ==
    /\ store = [tab |-> [notes |-> AbsentTable, events |-> AbsentTable,
                          tasks |-> AbsentTable],
                 idx |-> {}, err |-> FALSE]
    /\ orig = store
    /\ first = store
    /\ runs = 0

\* One start of the server on the store: get_database line 215.
RunInitSchema ==
    /\ runs < MaxRuns
    /\ store' = InitSchema(store)
    /\ runs' = runs + 1
    /\ first' = IF runs = 0 THEN store' ELSE first
    /\ UNCHANGED orig
    /\ UNCHANGED notSchVars

SchNext == RunInitSchema


(***************************************************************************)
(* Python strings are sequences of one-character strings.                  *)
(***************************************************************************)
Whitespace == {" ", "\t"}

UpperLetters == <<"A", "B", "C", "D", "E", "F", "G", "H", "I", "J", "K", "L", "M",
                  "N", "O", "P", "Q", "R", "S", "T", "U", "V", "W", "X", "Y", "Z">>
LowerLetters == <<"a", "b", "c", "d", "e", "f", "g", "h", "i", "j", "k", "l", "m",
                  "n", "o", "p", "q", "r", "s", "t", "u", "v", "w", "x", "y", "z">>

\* str.lower(), one character
LowerChar(ch) ==
    IF \E i \in DOMAIN UpperLetters : UpperLetters[i] = ch
    THEN LowerLetters[CHOOSE i \in DOMAIN UpperLetters : UpperLetters[i] = ch]
    ELSE ch

\* str.lower()
Lower(s) == [i \in DOMAIN s |-> LowerChar(s[i])]

\* str.replace(old, new) for one-character old and new
Replace(s, old, new) == [i \in DOMAIN s |-> IF s[i] = old THEN new ELSE s[i]]

RECURSIVE LStrip(_)
LStrip(s) ==
    IF s # <<>> /\ Head(s) \in Whitespace THEN LStrip(Tail(s)) ELSE s

RECURSIVE RStrip(_)
RStrip(s) ==
    IF s # <<>> /\ s[Len(s)] \in Whitespace
    THEN RStrip(SubSeq(s, 1, Len(s) - 1))
    ELSE s

\* str.strip()
Strip(s) == RStrip(LStrip(s))

\* str.split(sep): always at least one piece
RECURSIVE Split(_, _)
Split(s, sep) ==
    IF s = <<>> THEN << <<>> >>
    ELSE LET rest == Split(Tail(s), sep) IN
         IF Head(s) = sep
         THEN << <<>> >> \o rest
         ELSE << <<Head(s)>> \o Head(rest) >> \o Tail(rest)

\* sep.join(items)
RECURSIVE Join(_, _)
Join(items, sep) ==
    IF items = <<>> THEN <<>>
    ELSE IF Len(items) = 1 THEN items[1]
    ELSE items[1] \o <<sep>> \o Join(Tail(items), sep)

(***************************************************************************)
(* app/utils/tags.py.  A tags argument is None, a str or a list of str:    *)
(* [kind, items], the items of a str being the string alone.               *)
(***************************************************************************)
NoTags == [kind |-> "none", items |-> <<>>]
StrTags(s) == [kind |-> "str", items |-> <<s>>]
ListTags(l) == [kind |-> "list", items |-> l]

\* the loop of normalize_tags, lines 15-22 (cleaned doubles as seen)
RECURSIVE Clean(_, _)
Clean(raw_items, cleaned) ==
    IF raw_items = <<>> THEN cleaned
    ELSE LET tag == Lower(Strip(Head(raw_items))) IN
         IF tag = <<>> \/ \E i \in DOMAIN cleaned : cleaned[i] = tag
         THEN Clean(Tail(raw_items), cleaned)
         ELSE Clean(Tail(raw_items), Append(cleaned, tag))

\* normalize_tags, lines 6-23
normalize_tags(value) ==
    IF value.kind = "none" THEN <<>>
    ELSE LET raw_items ==
                 IF value.kind = "str"
                 THEN Split(Replace(value.items[1], ";", ","), ",")
                 ELSE value.items
         IN Join(Clean(raw_items, <<>>), ",")

\* tags_to_list, lines 26-29
tags_to_list(value) ==
    IF value = <<>> THEN <<>>
    ELSE LET parts == Split(value, ",")
             stripped == [i \in DOMAIN parts |-> Strip(parts[i])]
         IN SelectSeq(stripped, LAMBDA tag : tag # <<>>)

\* the same with the new items ahead of the existing ones
merge_tags_new_first(existing, new_tags) ==
    LET base == tags_to_list(existing)
        combined == tags_to_list(normalize_tags(new_tags)) \o base
    IN normalize_tags(ListTags(combined))

\* merge_tags, lines 32-35
merge_tags(existing, new_tags) ==
    LET base == tags_to_list(existing)
        combined == base \o tags_to_list(normalize_tags(new_tags))
    IN normalize_tags(ListTags(combined))

\* remove_tags, lines 38-43
remove_tags(existing, tags) ==
    IF existing = <<>> THEN <<>>
    ELSE LET remove_list == tags_to_list(normalize_tags(tags))
             remove_set == {remove_list[i] : i \in DOMAIN remove_list}
             remaining == SelectSeq(tags_to_list(existing),
                                    LAMBDA tag : tag \notin remove_set)
         IN normalize_tags(ListTags(remaining))

(***************************************************************************)
(* normalize_tags applied to every bounded input, then to its own output.  *)
(***************************************************************************)
TagChars == {"a", "A", "b", " ", ",", ";"}

RECURSIVE StringsOver(_, _)
StringsOver(chars, n) ==
    IF n = 0 THEN {<<>>}
    ELSE LET shorter == StringsOver(chars, n - 1) IN
         shorter \cup {<<ch>> \o t : ch \in chars, t \in {u \in shorter : Len(u) = n - 1}}

\* every str of at most MaxStrLen characters, and every list of str whose
\* items, written one after the other with a bar between, fit in MaxStrLen
TagInputs ==
    {NoTags}
    \cup {StrTags(t) : t \in StringsOver(TagChars, MaxStrLen)}
    \cup {ListTags(Split(t, "|")) : t \in StringsOver(TagChars \cup {"|"}, MaxStrLen)}
    \cup {ListTags(<<>>)}

TagInit ==
    /\ tagX \in TagInputs
    /\ tagY = <<>>
    /\ tagZ = <<>>
    /\ tagStep = 0

TagIdle ==
    /\ tagX = NoTags
    /\ tagY = <<>>
    /\ tagZ = <<>>
    /\ tagStep = 0

Normalize ==
    /\ tagStep = 0
    /\ tagY' = normalize_tags(tagX)
    /\ tagStep' = 1
    /\ UNCHANGED <<tagX, tagZ>>
    /\ UNCHANGED notTagVars

NormalizeAgain ==
    /\ tagStep = 1
    /\ tagZ' = normalize_tags(StrTags(tagY))
    /\ tagStep' = 2
    /\ UNCHANGED <<tagX, tagY>>
    /\ UNCHANGED notTagVars

TagNext == Normalize \/ NormalizeAgain

(***************************************************************************)
(* The notes and tasks tools (app/services/notes.py, tasks.py).            *)
(* Tool calls are made one after the other here; each action is one call.  *)
(***************************************************************************)
\* Optional[...] arguments: given or None
Some(v) == [given |-> TRUE, v |-> v]
NoStr == [given |-> FALSE, v |-> <<>>]
NoInt == [given |-> FALSE, v |-> 0]
NoBool == [given |-> FALSE, v |-> FALSE]

\* SQL NULL in a TEXT column
NullText == <<"NULL">>

Args(title, text, due_at, priority, tags, status, pinned) ==
    [title |-> title, text |-> text, due_at |-> due_at, priority |-> priority,
     tags |-> tags, status |-> status, pinned |-> pinned]

NoArgs == Args(NoStr, NoStr, NoStr, NoInt, NoTags, NoStr, NoBool)

Result(op, id, args, status, error) ==
    [op |-> op, id |-> id, args |-> args, status |-> status, error |-> error]

Ok(op, id, args) == Result(op, id, args, "ok", "")
Error(op, id, args, msg) == Result(op, id, args, "error", msg)

\* tasks.py line 9
VALID_STATUSES ==
    { <<"p", "e", "n", "d", "i", "n", "g">>,
      <<"i", "n", "_", "p", "r", "o", "g", "r", "e", "s", "s">>,
      <<"d", "o", "n", "e">>,
      <<"c", "a", "n", "c", "e", "l", "e", "d">> }

\* _normalize_status, tasks.py lines 12-16 (NullText stands for None)
NormalizeStatusLowerOnly(value) ==
    Replace(Lower(Strip(value)), " ", "_")

NormalizeStatus(value) ==
    LET status == Replace(Lower(Strip(value)), " ", "_") IN
    IF status \in VALID_STATUSES THEN status ELSE NullText

\* max(1, min(int(priority), 5)), tasks.py lines 63 and 187
ClampPriorityLowOnly(p) == IF p < 1 THEN 1 ELSE p

ClampPriority(p) == IF p < 1 THEN 1 ELSE IF p > 5 THEN 5 ELSE p

\* `not title.strip()`
BlankEmptyOnly(s) == s = <<>>

Blank(s) == Strip(s) = <<>>

\* `await get_database()` by a tool called on its own: the cached handle, or
\* a first initialisation that succeeds or raises.
DbOutcomes == IF db # 0 THEN {"ok"} ELSE {"ok", "raise"}
DbAfter(o) == IF db # 0 THEN db ELSE IF o = "ok" THEN 1 ELSE 0

DalInit ==
    /\ notes = <<>>
    /\ tasks = <<>>
    /\ events = <<>>
    /\ seq = [notes |-> 0, tasks |-> 0, events |-> 0]
    /\ clock = 0
    /\ ret = Ok("none", 0, NoArgs)
    /\ hist = [created |-> [notes |-> <<>>, tasks |-> <<>>, events |-> <<>>],
               deleted |-> [notes |-> <<>>, tasks |-> <<>>, events |-> <<>>]]

\* no tool call in flight
JobIdle == jobs = <<>>

DalIdle == DalInit /\ JobIdle

\* CURRENT_TIMESTAMP moves on between calls.
Tick ==
    /\ clock < MaxClock
    /\ clock' = clock + 1
    /\ UNCHANGED <<db, notes, tasks, events, seq, ret, hist>>
    /\ UNCHANGED notDalVars

Insert(table, id, row) == [i \in DOMAIN table \cup {id} |-> IF i = id THEN row ELSE table[i]]
Delete(table, id) == [i \in DOMAIN table \ {id} |-> table[i]]

\* INTEGER PRIMARY KEY AUTOINCREMENT (sqlite.py lines 17, 31, 48): one more
\* than the highest id the table ever held, kept in sqlite_sequence; without
\* AUTOINCREMENT it is one more than the highest id in the table now.
NextIdMaxRowid(t, table) ==
    IF DOMAIN table = {} THEN 1
    ELSE 1 + CHOOSE i \in DOMAIN table : \A j \in DOMAIN table : j <= i

NextId(t, table) == seq[t] + 1

\* The ids the tools returned: cursor.lastrowid of a create, "deleted" of a
\* delete, in the order of the calls.
Created(t, id) == [hist EXCEPT !.created[t] = Append(@, id)]
Deleted(t, id) == [hist EXCEPT !.deleted[t] = Append(@, id)]

\* create_note, notes.py lines 32-56
CreateNote(title, content, tags, pinned) ==
    LET a == Args(Some(title), Some(content), NoStr, NoInt, tags, NoStr, Some(pinned))
        id == NextId("notes", notes)
    IN
    /\ seq.notes < MaxId
    /\ UNCHANGED <<tasks, events, clock>>
    /\ UNCHANGED notDalVars
    /\ IF Blank(title)
       THEN /\ ret' = Error("create_note", 0, a, "title cannot be empty")
            /\ UNCHANGED <<db, notes, seq, hist>>
       ELSE \E o \in DbOutcomes :
            /\ db' = DbAfter(o)
            /\ IF o = "raise"
               THEN /\ ret' = Error("create_note", 0, a, "storage")
                    /\ UNCHANGED <<notes, seq, hist>>
               ELSE /\ notes' = Insert(notes, id,
                                   [title |-> title, content |-> content,
                                    tags |-> normalize_tags(tags), pinned |-> pinned,
                                    created_at |-> clock, updated_at |-> clock])
                    /\ seq' = [seq EXCEPT !.notes = id]
                    /\ hist' = Created("notes", id)
                    /\ ret' = Ok("create_note", id, a)

\* The SET list of update_note, lines 156-169, applied to a row.
NoteFields(a) ==
    {f \in {"title", "text", "tags", "pinned"} :
        IF f = "tags" THEN a.tags.kind # "none" ELSE a[f].given}

UpdatedNoteAllColumns(row, a) ==
    [title |-> IF a.title.given THEN a.title.v ELSE row.title,
     content |-> a.text.v,
     tags |-> normalize_tags(a.tags),
     pinned |-> a.pinned.v,
     created_at |-> row.created_at,
     updated_at |-> clock]

UpdatedNote(row, a) ==
    [title |-> IF a.title.given THEN a.title.v ELSE row.title,
     content |-> IF a.text.given THEN a.text.v ELSE row.content,
     tags |-> IF a.tags.kind # "none" THEN normalize_tags(a.tags) ELSE row.tags,
     pinned |-> IF a.pinned.given THEN a.pinned.v ELSE row.pinned,
     created_at |-> row.created_at,
     updated_at |-> clock]

\* update_note, notes.py lines 142-188
UpdateNote(id, title, content, tags, pinned) ==
    LET a == Args(title, content, NoStr, NoInt, tags, NoStr, pinned) IN
    /\ UNCHANGED <<tasks, events, seq, clock, hist>>
    /\ UNCHANGED notDalVars
    /\ \E o \in DbOutcomes :
        /\ db' = DbAfter(o)
        /\ IF o = "raise"
           THEN ret' = Error("update_note", id, a, "storage") /\ UNCHANGED notes
           ELSE IF title.given /\ Blank(title.v)
           THEN ret' = Error("update_note", id, a, "title cannot be empty")
                /\ UNCHANGED notes
           ELSE IF NoteFields(a) = {}
           THEN ret' = Error("update_note", id, a, "no fields to update")
                /\ UNCHANGED notes
           ELSE IF id \notin DOMAIN notes
           THEN ret' = Error("update_note", id, a, "note not found")
                /\ UNCHANGED notes
           ELSE /\ notes' = [notes EXCEPT ![id] = UpdatedNote(notes[id], a)]
                /\ ret' = Ok("update_note", id, a)

\* delete_note, notes.py lines 190-202
DeleteNote(id) ==
    /\ UNCHANGED <<tasks, events, seq, clock>>
    /\ UNCHANGED notDalVars
    /\ \E o \in DbOutcomes :
        /\ db' = DbAfter(o)
        /\ IF o = "raise"
           THEN ret' = Error("delete_note", id, NoArgs, "storage")
                /\ UNCHANGED <<notes, hist>>
           ELSE IF id \notin DOMAIN notes
           THEN ret' = Error("delete_note", id, NoArgs, "note not found")
                /\ UNCHANGED <<notes, hist>>
           ELSE /\ notes' = Delete(notes, id)
                /\ hist' = Deleted("notes", id)
                /\ ret' = Ok("delete_note", id, NoArgs)

\* add_note_tags (lines 204-222) and remove_note_tags (lines 224-242):
\* the tags of the fetched note are joined again and merged or reduced.
RetagNote(op, id, tags) ==
    LET a == Args(NoStr, NoStr, NoStr, NoInt, tags, NoStr, NoBool) IN
    /\ UNCHANGED <<tasks, events, seq, clock, hist>>
    /\ UNCHANGED notDalVars
    /\ \E o \in DbOutcomes :
        /\ db' = DbAfter(o)
        /\ IF o = "raise"
           THEN ret' = Error(op, id, a, "storage") /\ UNCHANGED notes
           ELSE IF id \notin DOMAIN notes
           THEN ret' = Error(op, id, a, "note not found") /\ UNCHANGED notes
           ELSE LET current == Join(tags_to_list(notes[id].tags), ",")
                    new == IF op = "add_note_tags"
                           THEN merge_tags(current, tags)
                           ELSE remove_tags(current, tags)
                IN /\ notes' = [notes EXCEPT ![id].tags = new,
                                             ![id].updated_at = clock]
                   /\ ret' = Ok(op, id, a)

AddNoteTags(id, tags) == RetagNote("add_note_tags", id, tags)
RemoveNoteTags(id, tags) == RetagNote("remove_note_tags", id, tags)

\* create_task, tasks.py lines 43-81.  priority and status not given take
\* the defaults of the signature, 3 and "pending".
DefaultPriority == 3
DefaultStatus == <<"p", "e", "n", "d", "i", "n", "g">>

CreateTaskUpTo(most, title, description, due_at, priority, tags, status) ==
    LET a == Args(Some(title), Some(description), due_at, priority, tags, status, NoBool)
        id == NextId("tasks", tasks)
        normalized_status ==
            NormalizeStatus(IF status.given THEN status.v ELSE DefaultStatus)
        clamped_priority ==
            ClampPriority(IF priority.given THEN priority.v ELSE DefaultPriority)
    IN
    /\ seq.tasks < most
    /\ UNCHANGED <<notes, events, clock>>
    /\ UNCHANGED notDalVars
    /\ IF Blank(title)
       THEN /\ ret' = Error("create_task", 0, a, "title cannot be empty")
            /\ UNCHANGED <<db, tasks, seq, hist>>
       ELSE IF normalized_status = NullText
       THEN /\ ret' = Error("create_task", 0, a, "invalid status")
            /\ UNCHANGED <<db, tasks, seq, hist>>
       ELSE \E o \in DbOutcomes :
            /\ db' = DbAfter(o)
            /\ IF o = "raise"
               THEN /\ ret' = Error("create_task", 0, a, "storage")
                    /\ UNCHANGED <<tasks, seq, hist>>
               ELSE /\ tasks' = Insert(tasks, id,
                                   [title |-> title, description |-> description,
                                    due_at |-> IF due_at.given /\ ~Blank(due_at.v)
                                               THEN due_at.v ELSE NullText,
                                    priority |-> clamped_priority,
                                    tags |-> normalize_tags(tags),
                                    status |-> normalized_status,
                                    created_at |-> clock, updated_at |-> clock])
                    /\ seq' = [seq EXCEPT !.tasks = id]
                    /\ hist' = Created("tasks", id)
                    /\ ret' = Ok("create_task", id, a)

CreateTask(title, description, due_at, priority, tags, status) ==
    CreateTaskUpTo(MaxId, title, description, due_at, priority, tags, status)

\* The SET list of update_task, lines 173-199, applied to a row.
TaskFields(a) ==
    {f \in {"title", "text", "due_at", "priority", "tags", "status"} :
        IF f = "tags" THEN a.tags.kind # "none" ELSE a[f].given}

\* the same with the due date written as it was given
UpdatedTaskRawDue(row, a) ==
    [title |-> IF a.title.given THEN a.title.v ELSE row.title,
     description |-> IF a.text.given THEN a.text.v ELSE row.description,
     due_at |-> IF a.due_at.given THEN a.due_at.v ELSE row.due_at,
     priority |-> IF a.priority.given THEN ClampPriority(a.priority.v) ELSE row.priority,
     tags |-> IF a.tags.kind # "none" THEN normalize_tags(a.tags) ELSE row.tags,
     status |-> IF a.status.given THEN NormalizeStatus(a.status.v) ELSE row.status,
     created_at |-> row.created_at,
     updated_at |-> clock]

\* the same with a transition graph: no way out of done
UpdatedTaskOneWay(row, a) ==
    [title |-> IF a.title.given THEN a.title.v ELSE row.title,
     description |-> IF a.text.given THEN a.text.v ELSE row.description,
     due_at |-> IF a.due_at.given
                THEN (IF Strip(a.due_at.v) = <<>> THEN NullText ELSE Strip(a.due_at.v))
                ELSE row.due_at,
     priority |-> IF a.priority.given THEN ClampPriority(a.priority.v) ELSE row.priority,
     tags |-> IF a.tags.kind # "none" THEN normalize_tags(a.tags) ELSE row.tags,
     status |-> IF a.status.given /\ row.status # <<"d", "o", "n", "e">>
                THEN NormalizeStatus(a.status.v) ELSE row.status,
     created_at |-> row.created_at,
     updated_at |-> clock]

UpdatedTask(row, a) ==
    [title |-> IF a.title.given THEN a.title.v ELSE row.title,
     description |-> IF a.text.given THEN a.text.v ELSE row.description,
     due_at |-> IF a.due_at.given
                THEN (IF Strip(a.due_at.v) = <<>> THEN NullText ELSE Strip(a.due_at.v))
                ELSE row.due_at,
     priority |-> IF a.priority.given THEN ClampPriority(a.priority.v) ELSE row.priority,
     tags |-> IF a.tags.kind # "none" THEN normalize_tags(a.tags) ELSE row.tags,
     status |-> IF a.status.given THEN NormalizeStatus(a.status.v) ELSE row.status,
     created_at |-> row.created_at,
     updated_at |-> clock]

\* update_task, tasks.py lines 157-218
UpdateTask(id, title, description, due_at, priority, tags, status) ==
    LET a == Args(title, description, due_at, priority, tags, status, NoBool) IN
    /\ UNCHANGED <<notes, events, seq, clock, hist>>
    /\ UNCHANGED notDalVars
    /\ \E o \in DbOutcomes :
        /\ db' = DbAfter(o)
        /\ IF o = "raise"
           THEN ret' = Error("update_task", id, a, "storage") /\ UNCHANGED tasks
           ELSE IF title.given /\ Blank(title.v)
           THEN ret' = Error("update_task", id, a, "title cannot be empty")
                /\ UNCHANGED tasks
           ELSE IF status.given /\ NormalizeStatus(status.v) = NullText
           THEN ret' = Error("update_task", id, a, "invalid status")
                /\ UNCHANGED tasks
           ELSE IF TaskFields(a) = {}
           THEN ret' = Error("update_task", id, a, "no fields to update")
                /\ UNCHANGED tasks
           ELSE IF id \notin DOMAIN tasks
           THEN ret' = Error("update_task", id, a, "task not found")
                /\ UNCHANGED tasks
           ELSE /\ tasks' = [tasks EXCEPT ![id] = UpdatedTask(tasks[id], a)]
                /\ ret' = Ok("update_task", id, a)

\* complete_task, tasks.py lines 220-236
CompleteTaskNoStamp(id) ==
    /\ UNCHANGED <<notes, events, seq, clock, hist>>
    /\ UNCHANGED notDalVars
    /\ \E o \in DbOutcomes :
        /\ db' = DbAfter(o)
        /\ IF o = "raise"
           THEN ret' = Error("complete_task", id, NoArgs, "storage") /\ UNCHANGED tasks
           ELSE IF id \notin DOMAIN tasks
           THEN ret' = Error("complete_task", id, NoArgs, "task not found")
                /\ UNCHANGED tasks
           ELSE /\ tasks' = [tasks EXCEPT ![id].status = <<"d", "o", "n", "e">>]
                /\ ret' = Ok("complete_task", id, NoArgs)

\* complete_task without the test of cursor.rowcount (lines 230-231)
CompleteTaskNoRowcount(id) ==
    /\ UNCHANGED <<notes, events, seq, clock, hist>>
    /\ UNCHANGED notDalVars
    /\ \E o \in DbOutcomes :
        /\ db' = DbAfter(o)
        /\ IF o = "raise"
           THEN ret' = Error("complete_task", id, NoArgs, "storage") /\ UNCHANGED tasks
           ELSE /\ tasks' = IF id \in DOMAIN tasks
                             THEN [tasks EXCEPT ![id].status = <<"d", "o", "n", "e">>,
                                                ![id].updated_at = clock]
                             ELSE tasks
                /\ ret' = Ok("complete_task", id, NoArgs)

CompleteTask(id) ==
    /\ UNCHANGED <<notes, events, seq, clock, hist>>
    /\ UNCHANGED notDalVars
    /\ \E o \in DbOutcomes :
        /\ db' = DbAfter(o)
        /\ IF o = "raise"
           THEN ret' = Error("complete_task", id, NoArgs, "storage") /\ UNCHANGED tasks
           ELSE IF id \notin DOMAIN tasks
           THEN ret' = Error("complete_task", id, NoArgs, "task not found")
                /\ UNCHANGED tasks
           ELSE /\ tasks' = [tasks EXCEPT ![id].status = <<"d", "o", "n", "e">>,
                                          ![id].updated_at = clock]
                /\ ret' = Ok("complete_task", id, NoArgs)

\* delete_task, tasks.py lines 238-250
DeleteTask(id) ==
    /\ UNCHANGED <<notes, events, seq, clock>>
    /\ UNCHANGED notDalVars
    /\ \E o \in DbOutcomes :
        /\ db' = DbAfter(o)
        /\ IF o = "raise"
           THEN ret' = Error("delete_task", id, NoArgs, "storage")
                /\ UNCHANGED <<tasks, hist>>
           ELSE IF id \notin DOMAIN tasks
           THEN ret' = Error("delete_task", id, NoArgs, "task not found")
                /\ UNCHANGED <<tasks, hist>>
           ELSE /\ tasks' = Delete(tasks, id)
                /\ hist' = Deleted("tasks", id)
                /\ ret' = Ok("delete_task", id, NoArgs)

(***************************************************************************)
(* The calendar tools (app/services/calendar.py).                          *)
(***************************************************************************)
EventArgs(title, start, end, location, description, all_day) ==
    [title |-> title, start |-> start, end |-> end, location |-> location,
     description |-> description, all_day |-> all_day]

\* create_event, calendar.py lines 36-64
CreateEvent(title, start, end, location, description, all_day) ==
    LET a == EventArgs(Some(title), Some(start), Some(end), Some(location),
                       Some(description), Some(all_day))
        id == NextId("events", events)
    IN
    /\ seq.events < MaxId
    /\ UNCHANGED <<notes, tasks, clock>>
    /\ UNCHANGED notDalVars
    /\ IF Blank(title)
       THEN /\ ret' = Error("create_event", 0, a, "title cannot be empty")
            /\ UNCHANGED <<db, events, seq, hist>>
       ELSE \E o \in DbOutcomes :
            /\ db' = DbAfter(o)
            /\ IF o = "raise"
               THEN /\ ret' = Error("create_event", 0, a, "storage")
                    /\ UNCHANGED <<events, seq, hist>>
               ELSE /\ events' = Insert(events, id,
                                    [title |-> title, start |-> start, end |-> end,
                                     location |-> location,
                                     description |-> description,
                                     all_day |-> all_day,
                                     created_at |-> clock, updated_at |-> clock])
                    /\ seq' = [seq EXCEPT !.events = id]
                    /\ hist' = Created("events", id)
                    /\ ret' = Ok("create_event", id, a)

\* The SET list of update_event, lines 157-176, applied to a row.
EventFields(a) ==
    {f \in {"title", "start", "end", "location", "description", "all_day"} :
        a[f].given}

UpdatedEvent(row, a) ==
    [title |-> IF a.title.given THEN a.title.v ELSE row.title,
     start |-> IF a.start.given THEN a.start.v ELSE row.start,
     end |-> IF a.end.given THEN a.end.v ELSE row.end,
     location |-> IF a.location.given THEN a.location.v ELSE row.location,
     description |-> IF a.description.given THEN a.description.v
                     ELSE row.description,
     all_day |-> IF a.all_day.given THEN a.all_day.v ELSE row.all_day,
     created_at |-> row.created_at,
     updated_at |-> clock]

\* update_event, calendar.py lines 141-195
UpdateEvent(id, title, start, end, location, description, all_day) ==
    LET a == EventArgs(title, start, end, location, description, all_day) IN
    /\ UNCHANGED <<notes, tasks, seq, clock, hist>>
    /\ UNCHANGED notDalVars
    /\ \E o \in DbOutcomes :
        /\ db' = DbAfter(o)
        /\ IF o = "raise"
           THEN ret' = Error("update_event", id, a, "storage") /\ UNCHANGED events
           ELSE IF title.given /\ Blank(title.v)
           THEN ret' = Error("update_event", id, a, "title cannot be empty")
                /\ UNCHANGED events
           ELSE IF EventFields(a) = {}
           THEN ret' = Error("update_event", id, a, "no fields to update")
                /\ UNCHANGED events
           ELSE IF id \notin DOMAIN events
           THEN ret' = Error("update_event", id, a, "event not found")
                /\ UNCHANGED events
           ELSE /\ events' = [events EXCEPT ![id] = UpdatedEvent(events[id], a)]
                /\ ret' = Ok("update_event", id, a)

\* delete_event, calendar.py lines 197-209
DeleteEvent(id) ==
    /\ UNCHANGED <<notes, tasks, seq, clock>>
    /\ UNCHANGED notDalVars
    /\ \E o \in DbOutcomes :
        /\ db' = DbAfter(o)
        /\ IF o = "raise"
           THEN ret' = Error("delete_event", id, NoArgs, "storage")
                /\ UNCHANGED <<events, hist>>
           ELSE IF id \notin DOMAIN events
           THEN ret' = Error("delete_event", id, NoArgs, "event not found")
                /\ UNCHANGED <<events, hist>>
           ELSE /\ events' = Delete(events, id)
                /\ hist' = Deleted("events", id)
                /\ ret' = Ok("delete_event", id, NoArgs)

(***************************************************************************)
(* The list tools: list_notes, list_events, list_tasks.                    *)
(***************************************************************************)
\* Comparison of TEXT values (BINARY collation) over the characters used in
\* dates here; NULL is handled by the callers.
Digits == <<"0", "1", "2", "3", "4", "5", "6", "7", "8", "9">>
CharRank(ch) ==
    IF \E i \in DOMAIN Digits : Digits[i] = ch
    THEN CHOOSE i \in DOMAIN Digits : Digits[i] = ch
    ELSE 0

RECURSIVE TextLess(_, _)
TextLess(s, t) ==
    IF t = <<>> THEN FALSE
    ELSE IF s = <<>> THEN TRUE
    ELSE IF CharRank(Head(s)) # CharRank(Head(t))
         THEN CharRank(Head(s)) < CharRank(Head(t))
    ELSE TextLess(Tail(s), Tail(t))

\* ORDER BY pinned DESC, updated_at DESC, created_at DESC (notes.py line 98)
NoteBefore(a, b) ==
    \/ a.pinned /\ ~b.pinned
    \/ a.pinned = b.pinned /\ a.updated_at > b.updated_at
    \/ a.pinned = b.pinned /\ a.updated_at = b.updated_at
       /\ a.created_at > b.created_at

\* ORDER BY "start" (calendar.py line 87)
EventBefore(a, b) == TextLess(a.start, b.start)

\* ORDER BY CASE WHEN due_at IS NULL THEN 1 ELSE 0 END, due_at,
\* priority DESC, updated_at DESC (tasks.py lines 123-124), ignoring the
\* first two keys
TaskBeforeNoDue(a, b) ==
    \/ a.priority > b.priority
    \/ a.priority = b.priority /\ a.updated_at > b.updated_at

TaskBefore(a, b) ==
    LET na == IF a.due_at = NullText THEN 1 ELSE 0
        nb == IF b.due_at = NullText THEN 1 ELSE 0
    IN
    \/ na < nb
    \/ na = nb /\ na = 0 /\ TextLess(a.due_at, b.due_at)
    \/ na = nb /\ (na = 1 \/ a.due_at = b.due_at) /\ a.priority > b.priority
    \/ na = nb /\ (na = 1 \/ a.due_at = b.due_at) /\ a.priority = b.priority
       /\ a.updated_at > b.updated_at

\* The orders in which a SELECT ... ORDER BY may give the rows `ids`, where
\* `before` holds the pairs <<i, j>> whose keys put row i ahead of row j: SQL
\* leaves the order of rows with equal keys open.
RECURSIVE Ordered(_, _)
Ordered(ids, before) ==
    IF ids = {} THEN {<<>>}
    ELSE UNION { {<<m>> \o rest : rest \in Ordered(ids \ {m}, before)} :
                 m \in {i \in ids : \A j \in ids : <<j, i>> \notin before} }

NotesOrder == {p \in (DOMAIN notes) \X (DOMAIN notes) : NoteBefore(notes[p[1]], notes[p[2]])}
EventsOrder == {p \in (DOMAIN events) \X (DOMAIN events) : EventBefore(events[p[1]], events[p[2]])}
TasksOrder == {p \in (DOMAIN tasks) \X (DOMAIN tasks) : TaskBefore(tasks[p[1]], tasks[p[2]])}

\* max(1, min(int(limit), 200)) and the like, without the lower bound
ClampLimitNoFloor(limit, most) == IF limit > most THEN most ELSE limit

ClampLimit(limit, most) ==
    IF limit > most THEN most ELSE IF limit < 1 THEN 1 ELSE limit

\* max(0, int(offset))
ClampOffset(offset) == IF offset < 0 THEN 0 ELSE offset

\* LIMIT ? OFFSET ? (a negative LIMIT is no limit in SQLite)
Page(rows, lim, off) ==
    LET last == IF lim < 0 \/ off + lim > Len(rows) THEN Len(rows) ELSE off + lim
    IN SubSeq(rows, off + 1, last)

NotesMaxLimit == 200
EventsMaxLimit == 500
TasksMaxLimit == 200

ListArgs(tag, pinned_only, status, limit, offset) ==
    [tag |-> tag, pinned_only |-> pinned_only, status |-> status,
     limit |-> limit, offset |-> offset]

\* {"<entity>s": [...], "count": len(...), "next_offset": off + len(...)}
\* lim and off are the values bound to LIMIT ? OFFSET ?
Listed(op, a, rows, lim, off) ==
    [op |-> op, id |-> 0, args |-> a, status |-> "ok", error |-> "",
     rows |-> rows, count |-> Len(rows), next_offset |-> off + Len(rows),
     lim |-> lim, off |-> off]

ListFailed(op, a, msg) ==
    [op |-> op, id |-> 0, args |-> a, status |-> "error", error |-> msg,
     rows |-> <<>>, count |-> 0, next_offset |-> 0, lim |-> 0, off |-> 0]

\* X LIKE pattern: % stands for any run of characters, _ for any one
\* character, and ASCII letters match whatever their case (with COLLATE
\* NOCASE or without).
RECURSIVE LikeMatch(_, _)
LikeMatch(pattern, s) ==
    IF pattern = <<>> THEN s = <<>>
    ELSE IF Head(pattern) = "%"
         THEN \/ LikeMatch(Tail(pattern), s)
              \/ s # <<>> /\ LikeMatch(pattern, Tail(s))
    ELSE IF s = <<>> THEN FALSE
    ELSE /\ Head(pattern) = "_" \/ LowerChar(Head(pattern)) = LowerChar(Head(s))
         /\ LikeMatch(Tail(pattern), Tail(s))

\* ',' || tags || ',' LIKE '%,<tag>,%' (notes.py lines 90-91)
TagPattern(tag) == <<"%", ",">> \o Lower(Strip(tag)) \o <<",", "%">>

TagLike(tags, tag) == LikeMatch(TagPattern(tag), <<",">> \o tags \o <<",">>)

\* A read-only tool leaves the tables alone.
ReadOnly ==
    /\ UNCHANGED <<notes, tasks, events, seq, clock, hist>>
    /\ UNCHANGED notDalVars

\* list_notes, notes.py lines 72-107
ListNotes(tag, limit, offset, pinned_only) ==
    LET a == ListArgs(tag, pinned_only, NoStr, limit, offset)
        lim == ClampLimit(limit, NotesMaxLimit)
        off == ClampOffset(offset)
        ids == {i \in DOMAIN notes :
                   /\ pinned_only => notes[i].pinned
                   /\ (tag.given /\ tag.v # <<>>) => TagLike(notes[i].tags, tag.v)}
    IN
    /\ ReadOnly
    /\ \E o \in DbOutcomes :
        /\ db' = DbAfter(o)
        /\ IF o = "raise"
           THEN ret' = ListFailed("list_notes", a, "storage")
           ELSE \E rows \in Ordered(ids, NotesOrder) :
                   ret' = Listed("list_notes", a, Page(rows, lim, off), lim, off)

\* list_events, calendar.py lines 79-95
ListEvents(limit, offset) ==
    LET a == ListArgs(NoStr, FALSE, NoStr, limit, offset)
        lim == ClampLimit(limit, EventsMaxLimit)
        off == ClampOffset(offset)
    IN
    /\ ReadOnly
    /\ \E o \in DbOutcomes :
        /\ db' = DbAfter(o)
        /\ IF o = "raise"
           THEN ret' = ListFailed("list_events", a, "storage")
           ELSE \E rows \in Ordered(DOMAIN events, EventsOrder) :
                   ret' = Listed("list_events", a, Page(rows, lim, off), lim, off)

\* list_tasks, tasks.py lines 96-133
ListTasks(status, limit, offset) ==
    LET a == ListArgs(NoStr, FALSE, status, limit, offset)
        lim == ClampLimit(limit, TasksMaxLimit)
        off == ClampOffset(offset)
        filtered == status.given /\ status.v # <<>>
        ids == {i \in DOMAIN tasks :
                   filtered => tasks[i].status = NormalizeStatus(status.v)}
    IN
    /\ ReadOnly
    /\ \E o \in DbOutcomes :
        /\ db' = DbAfter(o)
        /\ IF o = "raise"
           THEN ret' = ListFailed("list_tasks", a, "storage")
           ELSE IF filtered /\ NormalizeStatus(status.v) = NullText
           THEN ret' = ListFailed("list_tasks", a, "invalid status")
           ELSE \E rows \in Ordered(ids, TasksOrder) :
                   ret' = Listed("list_tasks", a, Page(rows, lim, off), lim, off)

(***************************************************************************)
(* The search tools: search_notes, search_events, search_tasks.            *)
(***************************************************************************)
\* pattern = f"%{query}%"
SearchPattern(query) == <<"%">> \o query \o <<"%">>

\* ORDER BY updated_at DESC (notes.py lines 124 and 131, tasks.py line 147)
NotesByUpdate ==
    {p \in (DOMAIN notes) \X (DOMAIN notes) : notes[p[1]].updated_at > notes[p[2]].updated_at}
TasksByUpdate ==
    {p \in (DOMAIN tasks) \X (DOMAIN tasks) : tasks[p[1]].updated_at > tasks[p[2]].updated_at}

NotesSearchMaxLimit == 100
EventsSearchMaxLimit == 200
TasksSearchMaxLimit == 200

SearchArgs(query, limit, in_content) ==
    [query |-> query, limit |-> limit, in_content |-> in_content]

\* {"results": [...]}
Found(op, a, rows) ==
    [op |-> op, id |-> 0, args |-> a, status |-> "ok", error |-> "", rows |-> rows]

SearchFailed(op, a, msg) ==
    [op |-> op, id |-> 0, args |-> a, status |-> "error", error |-> msg, rows |-> <<>>]

\* search_notes, notes.py lines 109-140
SearchNotes(query, limit, in_content) ==
    LET a == SearchArgs(query, limit, in_content)
        lim == ClampLimit(limit, NotesSearchMaxLimit)
        ids == {i \in DOMAIN notes :
                   \/ LikeMatch(SearchPattern(query), notes[i].title)
                   \/ in_content /\ LikeMatch(SearchPattern(query), notes[i].content)}
    IN
    /\ ReadOnly
    /\ IF Blank(query)
       THEN ret' = SearchFailed("search_notes", a, "query cannot be empty")
            /\ UNCHANGED db
       ELSE \E o \in DbOutcomes :
            /\ db' = DbAfter(o)
            /\ IF o = "raise"
               THEN ret' = SearchFailed("search_notes", a, "storage")
               ELSE \E rows \in Ordered(ids, NotesByUpdate) :
                       ret' = Found("search_notes", a, Page(rows, lim, 0))

\* search_events, calendar.py lines 97-118
SearchEvents(query, limit) ==
    LET a == SearchArgs(query, limit, FALSE)
        lim == ClampLimit(limit, EventsSearchMaxLimit)
        ids == {i \in DOMAIN events :
                   \/ LikeMatch(SearchPattern(query), events[i].title)
                   \/ LikeMatch(SearchPattern(query), events[i].location)
                   \/ LikeMatch(SearchPattern(query), events[i].description)}
    IN
    /\ ReadOnly
    /\ IF Blank(query)
       THEN ret' = SearchFailed("search_events", a, "query cannot be empty")
            /\ UNCHANGED db
       ELSE \E o \in DbOutcomes :
            /\ db' = DbAfter(o)
            /\ IF o = "raise"
               THEN ret' = SearchFailed("search_events", a, "storage")
               ELSE \E rows \in Ordered(ids, EventsOrder) :
                       ret' = Found("search_events", a, Page(rows, lim, 0))

\* search_tasks, tasks.py lines 135-155
SearchTasks(query, limit) ==
    LET a == SearchArgs(query, limit, FALSE)
        lim == ClampLimit(limit, TasksSearchMaxLimit)
        ids == {i \in DOMAIN tasks :
                   \/ LikeMatch(SearchPattern(query), tasks[i].title)
                   \/ LikeMatch(SearchPattern(query), tasks[i].description)}
    IN
    /\ ReadOnly
    /\ IF Blank(query)
       THEN ret' = SearchFailed("search_tasks", a, "query cannot be empty")
            /\ UNCHANGED db
       ELSE \E o \in DbOutcomes :
            /\ db' = DbAfter(o)
            /\ IF o = "raise"
               THEN ret' = SearchFailed("search_tasks", a, "storage")
               ELSE \E rows \in Ordered(ids, TasksByUpdate) :
                       ret' = Found("search_tasks", a, Page(rows, lim, 0))

(***************************************************************************)
(* How a call of a tool or a resource ends.  Every handler has the shape   *)
(*     <checks of the arguments, each returning an error record>           *)
(*     try:   db = await get_database(); <statements>; return <payload>    *)
(*     except Exception as e:   return <error record with str(e)>          *)
(* A step raises, or goes on; what is raised inside the try block reaches  *)
(* the except clause, what is raised outside it reaches the caller.        *)
(***************************************************************************)
\* [name, kind, pre, inner]: pre is what the handler does ahead of its try
\* block ("check": `if not x.strip()` and the like on str arguments, "int":
\* int(<str>) inside `try ... except ValueError`, "none"); inner tells
\* whether the try block returns error records of its own (a check of the
\* arguments, or "<entity> not found").
Handler(name, kind, pre, inner) ==
    [name |-> name, kind |-> kind, pre |-> pre, inner |-> inner]

NotesTools ==
    { Handler("create_note", "tool", "check", FALSE),
      Handler("get_note", "tool", "none", TRUE),
      Handler("list_notes", "tool", "none", FALSE),
      Handler("search_notes", "tool", "check", FALSE),
      Handler("update_note", "tool", "none", TRUE),
      Handler("delete_note", "tool", "none", TRUE),
      Handler("add_note_tags", "tool", "none", TRUE),
      Handler("remove_note_tags", "tool", "none", TRUE) }

TasksTools ==
    { Handler("create_task", "tool", "check", FALSE),
      Handler("get_task", "tool", "none", TRUE),
      Handler("list_tasks", "tool", "none", TRUE),
      Handler("search_tasks", "tool", "check", FALSE),
      Handler("update_task", "tool", "none", TRUE),
      Handler("complete_task", "tool", "none", TRUE),
      Handler("delete_task", "tool", "none", TRUE) }

EventsTools ==
    { Handler("create_event", "tool", "check", FALSE),
      Handler("get_event", "tool", "none", TRUE),
      Handler("list_events", "tool", "none", FALSE),
      Handler("search_events", "tool", "check", FALSE),
      Handler("list_upcoming_events", "tool", "none", FALSE),
      Handler("update_event", "tool", "none", TRUE),
      Handler("delete_event", "tool", "none", TRUE) }

Resources ==
    { Handler("recent_notes", "resource", "none", FALSE),
      Handler("upcoming_events", "resource", "none", FALSE),
      Handler("tasks_summary", "resource", "none", FALSE),
      Handler("stats_summary", "resource", "none", FALSE),
      Handler("note_by_id", "resource", "int", TRUE),
      Handler("event_by_id", "resource", "int", TRUE),
      Handler("task_by_id", "resource", "int", TRUE),
      Handler("notes_by_tag", "resource", "none", FALSE),
      Handler("notes_search", "resource", "check", FALSE),
      Handler("notes_range", "resource", "none", FALSE),
      Handler("events_range", "resource", "none", FALSE),
      Handler("events_on", "resource", "none", FALSE),
      Handler("events_search", "resource", "check", FALSE),
      Handler("tasks_by_status", "resource", "check", FALSE),
      Handler("tasks_by_tag", "resource", "none", FALSE),
      Handler("tasks_search", "resource", "check", FALSE),
      Handler("tasks_due_range", "resource", "none", FALSE),
      Handler("tasks_by_priority", "resource", "int", FALSE) }

\* how a block of code ends: [how, msg, at], how being "payload", "error"
\* (an error record is returned) or "raise"; at names the step that decided
Ended(how, msg, at) == [how |-> how, msg |-> msg, at |-> at]

\* the try block without its except clause
Uncaught(end) == end

\* try: ... except Exception as e: return {"status": "error", "error": str(e)}
Caught(end) ==
    IF end.how = "raise" THEN Ended("error", end.msg, end.at) ELSE end

\* the body of the try block: get_database, then the statements; o is what
\* get_database does, st what the statements do, refused whether the block
\* returns an error record of its own
TryBody(h, o, st, refused) ==
    IF o = "raise" THEN Ended("raise", "storage", "get_database")
    ELSE IF st = "raise" THEN Ended("raise", "statement", "statement")
    ELSE IF h.inner /\ refused THEN Ended("error", "refused", "body")
    ELSE Ended("payload", "", "body")

\* A call of handler h.  bad: the arguments do not pass the handler's checks;
\* int(<str>) raises ValueError for a str that is not a number.
RunHandler(h, bad, o, st, refused) ==
    LET end ==
            IF h.pre = "check" /\ bad THEN Ended("error", "invalid", "check")
            ELSE IF h.pre = "int" /\ bad THEN Ended("error", "must be an integer", "int")
            ELSE Caught(TryBody(h, o, st, refused))
    IN
    /\ UNCHANGED <<notes, tasks, events, seq, clock, hist>>
    /\ UNCHANGED notDalVars
    /\ db' = IF end.at \in {"check", "int"} THEN db ELSE DbAfter(o)
    /\ ret' = [op |-> h.name, kind |-> h.kind, id |-> 0, args |-> NoArgs,
               status |-> IF end.how = "payload" THEN "ok" ELSE end.how,
               error |-> end.msg, at |-> end.at]

(***************************************************************************)
(* _resolve_db_path (app/db/sqlite.py 66-91).  A path is a sequence of     *)
(* pieces: " ", "/", "~", a name "d", and the text ":memory:" as one piece.*)
(* env tells what the file system and the process environment answer:      *)
(*   cwd         Path.cwd() finds the working directory (it raises          *)
(*               FileNotFoundError when the directory was removed)          *)
(*   home        the home directory can be determined (Path.home() and      *)
(*               Path.expanduser() raise RuntimeError when it cannot)       *)
(*   mkdir       path.parent.mkdir(parents=True, exist_ok=True) succeeds    *)
(*   mkdir_home  the same for ~/.lifeos                                     *)
(***************************************************************************)
Memory == <<":memory:">>
DefaultPath == <<"d">>
HomePath == <<"/", "home", "/", ".lifeos", "/", "d">>

\* value = (raw_path or "").strip(); if not value: value = "data/lifeos.db"
PathValue(raw_path) ==
    IF Strip(raw_path) = <<>> THEN DefaultPath ELSE Strip(raw_path)

\* Path(value).expanduser(), and (Path.cwd() / path).resolve() for a path
\* that is not absolute; <<"raise">> when one of them raises
AbsolutePath(value, env) ==
    IF Head(value) = "~"
    THEN IF env.home THEN <<"/", "home">> \o Tail(value) ELSE <<"raise">>
    ELSE IF Head(value) = "/" THEN value
    ELSE IF env.cwd THEN <<"/", "cwd", "/">> \o value ELSE <<"raise">>

\* lines 77-91: fallback = Path.home() / ".lifeos" / "lifeos.db" stands
\* between the two try blocks
Fallback(path, env) ==
    IF env.mkdir THEN path
    ELSE IF ~env.home THEN <<"raise">>
    ELSE IF env.mkdir_home THEN HomePath
    ELSE Memory

_resolve_db_path(raw_path, env) ==
    LET value == PathValue(raw_path)
        path == AbsolutePath(value, env)
    IN
    IF value = Memory THEN Memory
    ELSE IF path = <<"raise">> THEN path
    ELSE Fallback(path, env)

PathPieces == {" ", "/", "~", "d", ":memory:"}
MaxPathLen == 2
RawPaths == UNION {[1..n -> PathPieces] : n \in 0..MaxPathLen}
Envs == [cwd : BOOLEAN, home : BOOLEAN, mkdir : BOOLEAN, mkdir_home : BOOLEAN]

\* one call of _resolve_db_path; nothing else moves
ResolveDbPath ==
    \E raw_path \in RawPaths, env \in Envs :
        /\ ret' = [op |-> "_resolve_db_path", id |-> 0, args |-> NoArgs,
                   status |-> "ok", error |-> "",
                   raw_path |-> raw_path, env |-> env,
                   result |-> _resolve_db_path(raw_path, env)]
        /\ UNCHANGED <<db, notes, tasks, events, seq, clock, hist>>
        /\ UNCHANGED notDalVars

ResolveNext ==
    \/ ResolveDbPath

(***************************************************************************)
(* The lookups by tag of app/mcp_ext/resources.py.                         *)
(***************************************************************************)
MAX_TEMPLATE_RESULTS == 100

\* {"notes": [...], "count": len(...)}, {"tasks": [...], "count": len(...)}
Looked(op, a, rows) ==
    [op |-> op, id |-> 0, args |-> a, status |-> "ok", error |-> "",
     rows |-> rows, count |-> Len(rows)]

\* {"error": str(e)}
LookupFailed(op, a, msg) ==
    [op |-> op, id |-> 0, args |-> a, status |-> "error", error |-> msg,
     rows |-> <<>>, count |-> 0]

\* notes_by_tag, resources.py lines 190-206
NotesByTag(tag) ==
    LET a == ListArgs(Some(tag), FALSE, NoStr, MAX_TEMPLATE_RESULTS, 0)
        ids == {i \in DOMAIN notes : TagLike(notes[i].tags, tag)}
    IN
    /\ ReadOnly
    /\ \E o \in DbOutcomes :
        /\ db' = DbAfter(o)
        /\ IF o = "raise"
           THEN ret' = LookupFailed("notes_by_tag", a, "storage")
           ELSE \E rows \in Ordered(ids, NotesByUpdate) :
                   ret' = Looked("notes_by_tag", a, Page(rows, MAX_TEMPLATE_RESULTS, 0))

\* tasks_by_tag, resources.py lines 323-340
TasksByTag(tag) ==
    LET a == ListArgs(Some(tag), FALSE, NoStr, MAX_TEMPLATE_RESULTS, 0)
        ids == {i \in DOMAIN tasks : TagLike(tasks[i].tags, tag)}
    IN
    /\ ReadOnly
    /\ \E o \in DbOutcomes :
        /\ db' = DbAfter(o)
        /\ IF o = "raise"
           THEN ret' = LookupFailed("tasks_by_tag", a, "storage")
           ELSE \E rows \in Ordered(ids, TasksOrder) :
                   ret' = Looked("tasks_by_tag", a, Page(rows, MAX_TEMPLATE_RESULTS, 0))

(***************************************************************************)
(* The calls each specification makes.                                     *)
(***************************************************************************)
Ids == 1..MaxId
TitleT == <<"t">>

\* Tags arguments of the tools: none, a string with both separators, mixed
\* case and a repeat, a list with padding and a repeat, a list item that
\* holds a separator.
DalTagArgs ==
    { NoTags,
      StrTags(<<"B", ",", " ", "a", ";", "b">>),
      ListTags(<< <<" ", "A", " ">>, <<"a">> >>),
      ListTags(<< <<"a", ",", "a">> >>) }

\* Calls that differ in their tags only.
CreateNoteTags == \E t \in DalTagArgs : CreateNote(TitleT, <<>>, t, FALSE)
UpdateNoteTags == \E id \in Ids, t \in DalTagArgs : UpdateNote(id, NoStr, NoStr, t, NoBool)
AddNoteTagsAny == \E id \in Ids, t \in DalTagArgs \ {NoTags} : AddNoteTags(id, t)
RemoveNoteTagsAny == \E id \in Ids, t \in DalTagArgs \ {NoTags} : RemoveNoteTags(id, t)
CreateTaskTags == \E t \in DalTagArgs : CreateTask(TitleT, <<>>, NoStr, NoInt, t, NoStr)
UpdateTaskTags ==
    \E id \in Ids, t \in DalTagArgs : UpdateTask(id, NoStr, NoStr, NoStr, NoInt, t, NoStr)

DalTagsNext ==
    \/ CreateNoteTags
    \/ UpdateNoteTags
    \/ AddNoteTagsAny
    \/ RemoveNoteTagsAny
    \/ CreateTaskTags
    \/ UpdateTaskTags

\* Calls that differ in their priority only.
PrioArgs == (1 - PrioSpan)..(5 + PrioSpan)
OptPrioArgs == {NoInt} \cup {Some(p) : p \in PrioArgs}

CreateTaskPrio == \E p \in OptPrioArgs : CreateTask(TitleT, <<>>, NoStr, p, NoTags, NoStr)
UpdateTaskPrio ==
    \E id \in Ids, p \in OptPrioArgs : UpdateTask(id, NoStr, NoStr, NoStr, p, NoTags, NoStr)
CompleteTaskAny == \E id \in Ids : CompleteTask(id)

TaskPrioNext ==
    \/ CreateTaskPrio
    \/ UpdateTaskPrio
    \/ CompleteTaskAny

\* Calls that differ in their status and title.
StatusArgs ==
    { <<"p", "e", "n", "d", "i", "n", "g">>,
      <<" ", "I", "n", " ", "P", "r", "o", "g", "r", "e", "s", "s">>,
      <<"D", "O", "N", "E", " ">>,
      <<"c", "a", "n", "c", "e", "l", "e", "d">>,
      <<"b", "o", "g", "u", "s">>,
      <<"c", "a", "n", "c", "e", "l", "l", "e", "d">>,
      <<>> }
OptStatusArgs == {NoStr} \cup {Some(x) : x \in StatusArgs}
TitleArgs == {TitleT, <<" ">>}

CreateTaskStatus ==
    \E t \in TitleArgs, x \in OptStatusArgs : CreateTask(t, <<>>, NoStr, NoInt, NoTags, x)
UpdateTaskStatus ==
    \E id \in Ids, t \in {NoStr} \cup {Some(u) : u \in TitleArgs}, x \in OptStatusArgs :
        UpdateTask(id, t, NoStr, NoStr, NoInt, NoTags, x)

TaskStatusNext ==
    \/ CreateTaskStatus
    \/ UpdateTaskStatus
    \/ CompleteTaskAny

\* Calls that differ in their title, with one other valid field.
BlankTitles == {<<>>, <<" ">>}
AnyTitles == {TitleT} \cup BlankTitles
OptTitles == {NoStr} \cup {Some(t) : t \in AnyTitles}
OptText == {NoStr, Some(<<"x">>)}

CreateNoteTitle == \E t \in AnyTitles : CreateNote(t, <<"x">>, NoTags, FALSE)
UpdateNoteTitle ==
    \E id \in Ids, t \in OptTitles, c \in OptText : UpdateNote(id, t, c, NoTags, NoBool)
CreateEventTitle ==
    \E t \in AnyTitles : CreateEvent(t, <<"1">>, <<"2">>, <<>>, <<>>, FALSE)
UpdateEventTitle ==
    \E id \in Ids, t \in OptTitles, s \in OptText :
        UpdateEvent(id, t, s, NoStr, NoStr, NoStr, NoBool)
CreateTaskTitle ==
    \E t \in AnyTitles : CreateTask(t, <<"x">>, NoStr, NoInt, NoTags, NoStr)
UpdateTaskTitle ==
    \E id \in Ids, t \in OptTitles, d \in OptText :
        UpdateTask(id, t, d, NoStr, NoInt, NoTags, NoStr)

TitlesNext ==
    \/ CreateNoteTitle
    \/ UpdateNoteTitle
    \/ CreateEventTitle
    \/ UpdateEventTitle
    \/ CreateTaskTitle
    \/ UpdateTaskTitle

\* Updates of some of the fields, on rows created with fixed values (two
\* notes, one event, one task), while the clock moves on.
NewTags == StrTags(<<"B", ",", " ", "a", ";", "b">>)

CreateNoteFixed == CreateNote(TitleT, <<"x">>, NoTags, FALSE)
CreateEventFixed ==
    seq.events < 1 /\ CreateEvent(TitleT, <<"1">>, <<"2">>, <<>>, <<>>, FALSE)
CreateTaskFixed ==
    seq.tasks < 1 /\ CreateTask(TitleT, <<"x">>, NoStr, NoInt, NoTags, NoStr)

UpdateNoteSome ==
    \E id \in Ids,
       a \in { Args(Some(<<"u">>), Some(<<"y">>), NoStr, NoInt, NoTags, NoStr, NoBool),
               Args(NoStr, NoStr, NoStr, NoInt, NewTags, NoStr, Some(TRUE)) } :
        UpdateNote(id, a.title, a.text, a.tags, a.pinned)

UpdateEventSome ==
    \E id \in Ids,
       a \in { EventArgs(NoStr, Some(<<"3">>), NoStr, NoStr, NoStr, Some(TRUE)),
               EventArgs(Some(<<"u">>), NoStr, Some(<<"4">>), Some(<<"l">>),
                         Some(<<"d">>), NoBool) } :
        UpdateEvent(id, a.title, a.start, a.end, a.location, a.description, a.all_day)

UpdateTaskSome ==
    \E id \in Ids,
       a \in { Args(NoStr, NoStr, Some(<<" ", "5">>), Some(9), NoTags,
                    Some(<<"D", "o", "n", "e">>), NoBool),
               Args(Some(<<"u">>), Some(<<"y">>), NoStr, NoInt, NewTags, NoStr,
                    NoBool) } :
        UpdateTask(id, a.title, a.text, a.due_at, a.priority, a.tags, a.status)

UpdatesNext ==
    \/ CreateNoteFixed
    \/ CreateEventFixed
    \/ CreateTaskFixed
    \/ UpdateNoteSome
    \/ UpdateEventSome
    \/ UpdateTaskSome
    \/ Tick

\* Creates and mutations of every kind while the clock moves on.
OneTag == StrTags(<<"a">>)

AddNoteTagsOne == \E id \in Ids : AddNoteTags(id, OneTag)
RemoveNoteTagsOne == \E id \in Ids : RemoveNoteTags(id, OneTag)
UpdateEventStart ==
    \E id \in Ids : UpdateEvent(id, NoStr, Some(<<"3">>), NoStr, NoStr, NoStr, NoBool)
UpdateTaskPriority ==
    \E id \in Ids : UpdateTask(id, NoStr, NoStr, NoStr, Some(1), NoTags, NoStr)

ClockNext ==
    \/ CreateNoteFixed
    \/ CreateEventFixed
    \/ CreateTaskFixed
    \/ AddNoteTagsOne
    \/ RemoveNoteTagsOne
    \/ UpdateEventStart
    \/ UpdateTaskPriority
    \/ CompleteTaskAny
    \/ Tick

\* Creates, deletes and updates of every entity.
DeleteNoteAny == \E id \in Ids : DeleteNote(id)
DeleteEventAny == \E id \in Ids : DeleteEvent(id)
DeleteTaskAny == \E id \in Ids : DeleteTask(id)
CreateEventAny == CreateEvent(TitleT, <<"1">>, <<"2">>, <<>>, <<>>, FALSE)
CreateTaskAny == CreateTask(TitleT, <<"x">>, NoStr, NoInt, NoTags, NoStr)
UpdateNotePinned == \E id \in Ids : UpdateNote(id, NoStr, NoStr, NoTags, Some(TRUE))

IdsNext ==
    \/ CreateNoteFixed
    \/ CreateEventAny
    \/ CreateTaskAny
    \/ DeleteNoteAny
    \/ DeleteEventAny
    \/ DeleteTaskAny
    \/ UpdateNotePinned
    \/ UpdateEventStart
    \/ UpdateTaskPriority

\* Updates and completions of ids with and without a row.
NotFoundNext ==
    \/ CreateNoteFixed
    \/ CreateEventFixed
    \/ CreateTaskFixed
    \/ UpdateNotePinned
    \/ UpdateEventStart
    \/ UpdateTaskPriority
    \/ CompleteTaskAny

\* Pages of the three lists, with limits and offsets inside and outside
\* their ranges, over tables of up to MaxId rows.
Limits == {-1, 0, 1, 201, 501}
Offsets == {-1, 0, 1}

CreateNoteEither == \E pinned \in BOOLEAN : CreateNote(TitleT, <<"x">>, NoTags, pinned)
CreateEventAt == \E start \in {<<"1">>, <<"2">>} :
    CreateEvent(TitleT, start, <<"2">>, <<>>, <<>>, FALSE)
ListNotesAny == \E limit \in Limits, offset \in Offsets, pinned_only \in BOOLEAN :
    ListNotes(NoStr, limit, offset, pinned_only)
ListEventsAny == \E limit \in Limits, offset \in Offsets : ListEvents(limit, offset)
ListTasksAny == \E limit \in Limits, offset \in Offsets : ListTasks(NoStr, limit, offset)

ListsNext ==
    \/ CreateNoteEither
    \/ CreateEventAt
    \/ CreateTaskAny
    \/ ListNotesAny
    \/ ListEventsAny
    \/ ListTasksAny

\* Up to MaxTasks tasks, dated and undated, some with equal keys, completed
\* in any number and order while the clock moves on, and listed by status.
Done == <<"d", "o", "n", "e">>
Pending == <<"p", "e", "n", "d", "i", "n", "g">>

\* the due_at and priority the n-th create_task is called with
TaskMenu(n) ==
    CASE n % 5 = 1 -> {[due_at |-> Some(<<"2">>), priority |-> 2]}
      [] n % 5 = 2 -> {[due_at |-> NoStr, priority |-> 2]}
      [] n % 5 = 3 -> {[due_at |-> Some(<<"1">>), priority |-> 1]}
      [] n % 5 = 4 -> {[due_at |-> Some(<<"2">>), priority |-> 2],
                       [due_at |-> Some(<<"2">>), priority |-> 3]}
      [] n % 5 = 0 -> {[due_at |-> NoStr, priority |-> 2]}

CreateTaskNth == \E c \in TaskMenu(seq.tasks + 1) :
    CreateTaskUpTo(MaxTasks, TitleT, <<>>, c.due_at, Some(c.priority), NoTags, NoStr)
CompleteTaskSome == \E id \in 1..MaxTasks : CompleteTask(id)
ListTasksByStatus ==
    \E status \in {Some(Done), Some(<<" ", "D", "o", "n", "e">>), Some(Pending),
                    Some(<<"x">>)},
       limit \in {1, 100} :
        ListTasks(status, limit, 0)

TaskListNext ==
    \/ CreateTaskNth
    \/ CompleteTaskSome
    \/ ListTasksByStatus
    \/ Tick

\* Searches over up to MaxId rows per table: the first note is pinned and the
\* second is not, the first event starts after the second, the first task is
\* dated and the second is not; the clock moves on between the calls.
Queries == {<<"T">>, <<"z">>, <<" ">>}
CreateNotePinnedFirst == CreateNote(TitleT, <<"x">>, NoTags, seq.notes % 2 = 0)
CreateEventLateFirst ==
    CreateEvent(TitleT, IF seq.events % 2 = 0 THEN <<"2">> ELSE <<"1">>,
                <<"2">>, <<>>, <<>>, FALSE)
CreateTaskDatedFirst ==
    CreateTask(TitleT, <<"x">>, IF seq.tasks % 2 = 0 THEN Some(<<"1">>) ELSE NoStr,
               NoInt, NoTags, NoStr)
SearchNotesAny == \E query \in Queries, in_content \in BOOLEAN :
    SearchNotes(query, 20, in_content)
SearchEventsAny == \E query \in Queries : SearchEvents(query, 50)
SearchTasksAny == \E query \in Queries : SearchTasks(query, 50)

SearchNext ==
    \/ CreateNotePinnedFirst
    \/ CreateEventLateFirst
    \/ CreateTaskDatedFirst
    \/ SearchNotesAny
    \/ SearchEventsAny
    \/ SearchTasksAny
    \/ Tick

\* Calls of every tool and resource, with every way their steps can end.
Outcomes == {"ok", "raise"}
CallNotesTool == \E h \in NotesTools, bad \in BOOLEAN, o \in DbOutcomes,
                    st \in Outcomes, refused \in BOOLEAN :
    RunHandler(h, bad, o, st, refused)
CallTasksTool == \E h \in TasksTools, bad \in BOOLEAN, o \in DbOutcomes,
                    st \in Outcomes, refused \in BOOLEAN :
    RunHandler(h, bad, o, st, refused)
CallEventsTool == \E h \in EventsTools, bad \in BOOLEAN, o \in DbOutcomes,
                     st \in Outcomes, refused \in BOOLEAN :
    RunHandler(h, bad, o, st, refused)
ReadResource == \E h \in Resources, bad \in BOOLEAN, o \in DbOutcomes,
                   st \in Outcomes, refused \in BOOLEAN :
    RunHandler(h, bad, o, st, refused)

HandlersNext ==
    \/ CallNotesTool
    \/ CallTasksTool
    \/ CallEventsTool
    \/ ReadResource

\* Tasks created in any status, moved between the four statuses and
\* completed, while the clock moves on.
CreateTaskInStatus == \E status \in VALID_STATUSES :
    CreateTask(TitleT, <<"x">>, NoStr, NoInt, NoTags, Some(status))
UpdateTaskToStatus == \E id \in Ids, status \in VALID_STATUSES :
    UpdateTask(id, NoStr, NoStr, NoStr, NoInt, NoTags, Some(status))

TransitionsNext ==
    \/ CreateTaskInStatus
    \/ UpdateTaskToStatus
    \/ CompleteTaskAny
    \/ Tick

\* Calls whose arguments pass or fail the checks of the tools: titles,
\* statuses, queries and updates of no field.
CheckedTitles == {TitleT, <<" ">>}
CheckedStatuses == {NoStr, Some(<<"x">>), Some(<<"d", "o", "n", "e">>)}
CreateNoteChecked == \E t \in CheckedTitles : CreateNote(t, <<"x">>, NoTags, FALSE)
CreateEventChecked ==
    \E t \in CheckedTitles : CreateEvent(t, <<"1">>, <<"2">>, <<>>, <<>>, FALSE)
CreateTaskChecked == \E t \in CheckedTitles, x \in CheckedStatuses :
    CreateTask(t, <<"x">>, NoStr, NoInt, NoTags, x)
UpdateNoteChecked == \E t \in {NoStr} \cup {Some(u) : u \in CheckedTitles} :
    UpdateNote(1, t, NoStr, NoTags, NoBool)
UpdateEventChecked == \E t \in {NoStr} \cup {Some(u) : u \in CheckedTitles} :
    UpdateEvent(1, t, NoStr, NoStr, NoStr, NoStr, NoBool)
UpdateTaskChecked == \E t \in {NoStr, Some(<<" ">>)}, x \in CheckedStatuses :
    UpdateTask(1, t, NoStr, NoStr, NoInt, NoTags, x)
ListTasksChecked == \E status \in CheckedStatuses : ListTasks(status, 100, 0)
SearchNotesChecked == \E query \in Queries : SearchNotes(query, 20, TRUE)

ValidationNext ==
    \/ CreateNoteChecked
    \/ CreateEventChecked
    \/ CreateTaskChecked
    \/ UpdateNoteChecked
    \/ UpdateEventChecked
    \/ UpdateTaskChecked
    \/ ListTasksChecked
    \/ SearchNotesChecked
    \/ SearchEventsAny
    \/ SearchTasksAny

\* Notes and tasks with no tag, one tag or two, looked up by tag.
StoredTagArgs == {NoTags, StrTags(<<"a">>), StrTags(<<"a", ",", "b">>)}
TagQueries == {<<"a">>, <<" ", "B">>, <<"c">>, <<" ">>, <<"_">>}
CreateNoteWithTags == \E t \in StoredTagArgs : CreateNote(TitleT, <<"x">>, t, FALSE)
CreateTaskWithTags == \E t \in StoredTagArgs :
    CreateTask(TitleT, <<"x">>, NoStr, NoInt, t, NoStr)
ListNotesByTag == \E tag \in TagQueries : ListNotes(Some(tag), 50, 0, FALSE)
NotesByTagAny == \E tag \in TagQueries : NotesByTag(tag)
TasksByTagAny == \E tag \in TagQueries : TasksByTag(tag)

TagFilterNext ==
    \/ CreateNoteWithTags
    \/ CreateTaskWithTags
    \/ ListNotesByTag
    \/ NotesByTagAny
    \/ TasksByTagAny

\* create_task and update_task with a due date absent, empty, blank, padded
\* or plain, and list_tasks of everything.
DueArgs == {NoStr, Some(<<>>), Some(<<" ">>), Some(<<"1">>), Some(<<" ", "2">>)}
CreateTaskDue ==
    \E due_at \in DueArgs : CreateTask(TitleT, <<>>, due_at, NoInt, NoTags, NoStr)
UpdateTaskDue ==
    \E id \in Ids, due_at \in DueArgs :
        UpdateTask(id, NoStr, NoStr, due_at, NoInt, NoTags, NoStr)
ListTasksAll == ListTasks(NoStr, 200, 0)

DueNext ==
    \/ CreateTaskDue
    \/ UpdateTaskDue
    \/ UpdateTaskPriority
    \/ ListTasksAll

(***************************************************************************)
(* Tool calls of the notes tools running concurrently on the event loop.   *)
(* A call runs from one await to the next: `await db.execute(...)` applies *)
(* its statement at once, and other calls may run before the coroutine     *)
(* goes on.  All calls share the one connection, so each sees what the     *)
(* others wrote whether or not it was committed yet: `await db.commit()`   *)
(* changes nothing that a call can see and is not a step of its own.       *)
(***************************************************************************)
\* The table a tool reads and writes, and how its messages call a row.
TableOf(op) ==
    IF op \in {"create_note", "update_note", "delete_note", "add_note_tags",
               "remove_note_tags"} THEN notes
    ELSE IF op \in {"create_event", "update_event", "delete_event"} THEN events
    ELSE tasks

TableNameOf(op) ==
    IF op \in {"create_note", "update_note", "delete_note", "add_note_tags",
               "remove_note_tags"} THEN "notes"
    ELSE IF op \in {"create_event", "update_event", "delete_event"} THEN "events"
    ELSE "tasks"

NotFound(op) ==
    IF TableNameOf(op) = "notes" THEN "note not found"
    ELSE IF TableNameOf(op) = "events" THEN "event not found"
    ELSE "task not found"

DeleteOps == {"delete_note", "delete_event", "delete_task"}

Job(op, id, tags) ==
    [op |-> op, id |-> id, tags |-> tags, pc |-> "get_database",
     existed |-> id \in DOMAIN TableOf(op),  \* the row was there when the call began
     \* a delete of that id had returned success when the call began
     late |-> \E i \in DOMAIN hist.deleted[TableNameOf(op)] :
                  hist.deleted[TableNameOf(op)][i] = id,
     fetched |-> NullText,             \* ",".join(note["tags"]) of the first fetch
     rowcount |-> 0,                   \* rows the DELETE or UPDATE matched
     status |-> "", error |-> "", note |-> "none"]

Running(c, pcs) == c \in DOMAIN jobs /\ jobs[c].pc \in pcs

Returned(c, status, error, note) ==
    [jobs EXCEPT ![c].pc = "returned", ![c].status = status,
                 ![c].error = error, ![c].note = note]

\* A tool is called: callers are numbered in the order of their calls.
StartJob(op, id, tags) ==
    /\ Len(jobs) < NJobs
    /\ jobs' = Append(jobs, Job(op, id, tags))
    /\ UNCHANGED <<db, notes, tasks, events, hist>>
    /\ UNCHANGED notJobVars

\* `db = await get_database()`, first statement of the three tools
JobGetDatabase(c) ==
    /\ Running(c, {"get_database"})
    /\ \E o \in DbOutcomes :
        /\ db' = DbAfter(o)
        /\ jobs' = IF o = "raise"
                   THEN Returned(c, "error", "storage", "none")
                   ELSE [jobs EXCEPT ![c].pc =
                            IF jobs[c].op \in DeleteOps THEN "delete" ELSE "fetch"]
    /\ UNCHANGED <<notes, tasks, events, hist>>
    /\ UNCHANGED notJobVars

\* DELETE FROM <table> WHERE id = ?
DeleteFrom(op, id) ==
    /\ notes' = IF op = "delete_note" THEN Delete(notes, id) ELSE notes
    /\ events' = IF op = "delete_event" THEN Delete(events, id) ELSE events
    /\ tasks' = IF op = "delete_task" THEN Delete(tasks, id) ELSE tasks

\* the DELETE with every call told that it deleted a row
JobDeleteCountsOne(c) ==
    /\ Running(c, {"delete"})
    /\ DeleteFrom(jobs[c].op, jobs[c].id)
    /\ jobs' = [jobs EXCEPT ![c].pc = "rowcount", ![c].rowcount = 1]
    /\ UNCHANGED <<db, hist>>
    /\ UNCHANGED notJobVars

\* delete_note line 195, delete_event line 202, delete_task line 243
JobDelete(c) ==
    /\ Running(c, {"delete"})
    /\ DeleteFrom(jobs[c].op, jobs[c].id)
    /\ jobs' = [jobs EXCEPT ![c].pc = "rowcount",
                            ![c].rowcount =
                                IF jobs[c].id \in DOMAIN TableOf(jobs[c].op)
                                THEN 1 ELSE 0]
    /\ UNCHANGED <<db, hist>>
    /\ UNCHANGED notJobVars

\* delete_note lines 196-199, delete_event 203-206, delete_task 244-247
JobDeleteReturn(c) ==
    /\ Running(c, {"rowcount"})
    /\ IF jobs[c].rowcount = 0
       THEN /\ jobs' = Returned(c, "error", NotFound(jobs[c].op), "none")
            /\ UNCHANGED hist
       ELSE /\ jobs' = Returned(c, "ok", "", "none")
            /\ hist' = Deleted(TableNameOf(jobs[c].op), jobs[c].id)
    /\ UNCHANGED <<db, notes, tasks, events>>
    /\ UNCHANGED notJobVars

\* add_note_tags lines 209-211, remove_note_tags lines 229-231
JobFetch(c) ==
    /\ Running(c, {"fetch"})
    /\ jobs' = IF jobs[c].id \notin DOMAIN notes
               THEN Returned(c, "error", "note not found", "none")
               ELSE [jobs EXCEPT ![c].pc = "update",
                                 ![c].fetched =
                                     Join(tags_to_list(notes[jobs[c].id].tags), ",")]
    /\ UNCHANGED <<db, notes, tasks, events, hist>>
    /\ UNCHANGED notJobVars

\* add_note_tags lines 212-216, remove_note_tags lines 232-236: the UPDATE
\* is sent whatever became of the row, and its rowcount is not looked at.
JobUpdate(c) ==
    LET id == jobs[c].id
        new == IF jobs[c].op = "add_note_tags"
               THEN merge_tags(jobs[c].fetched, jobs[c].tags)
               ELSE remove_tags(jobs[c].fetched, jobs[c].tags)
    IN
    /\ Running(c, {"update"})
    /\ notes' = IF id \in DOMAIN notes
                THEN [notes EXCEPT ![id].tags = new, ![id].updated_at = clock]
                ELSE notes
    /\ jobs' = [jobs EXCEPT ![c].pc = "refetch",
                            ![c].rowcount = IF id \in DOMAIN notes THEN 1 ELSE 0]
    /\ UNCHANGED <<db, tasks, events, hist>>
    /\ UNCHANGED notJobVars

\* add_note_tags lines 217-219, remove_note_tags lines 237-239
JobRefetch(c) ==
    /\ Running(c, {"refetch"})
    /\ jobs' = Returned(c, "ok", "",
                        IF jobs[c].id \in DOMAIN notes THEN "note" ELSE "null")
    /\ UNCHANGED <<db, notes, tasks, events, hist>>
    /\ UNCHANGED notJobVars

JobCallers == 1..NJobs

CallDeleteNote == \E id \in Ids : StartJob("delete_note", id, NoTags)
CallAddNoteTags == \E id \in Ids : StartJob("add_note_tags", id, OneTag)
CallRemoveNoteTags == \E id \in Ids : StartJob("remove_note_tags", id, OneTag)
GetDatabaseStep == \E c \in JobCallers : JobGetDatabase(c)
DeleteStep == \E c \in JobCallers : JobDelete(c)
DeleteReturnStep == \E c \in JobCallers : JobDeleteReturn(c)
FetchStep == \E c \in JobCallers : JobFetch(c)
UpdateStep == \E c \in JobCallers : JobUpdate(c)
RefetchStep == \E c \in JobCallers : JobRefetch(c)

\* create_note as one step (its INSERT is one statement) among the calls
CreateNoteTagged == jobs' = jobs /\ CreateNote(TitleT, <<>>, OneTag, FALSE)

\* Concurrent deletes on the three tables, each of the one row it ever has.
CallDeleteEvent == StartJob("delete_event", 1, NoTags)
CallDeleteTask == StartJob("delete_task", 1, NoTags)
CreateNoteAlone == jobs' = jobs /\ seq.notes < 1 /\ CreateNoteFixed
CreateEventAlone == jobs' = jobs /\ CreateEventFixed
CreateTaskAlone == jobs' = jobs /\ CreateTaskFixed

CallDeleteNoteOne == StartJob("delete_note", 1, NoTags)

DeletesNext ==
    \/ CreateNoteAlone
    \/ CreateEventAlone
    \/ CreateTaskAlone
    \/ CallDeleteNoteOne
    \/ CallDeleteEvent
    \/ CallDeleteTask
    \/ GetDatabaseStep
    \/ DeleteStep
    \/ DeleteReturnStep

\* Concurrent add_note_tags calls on the one note, each adding a tag of its own.
TagA == StrTags(<<"a">>)
TagB == StrTags(<<"B">>)
CallAddTagA == StartJob("add_note_tags", 1, TagA)
CallAddTagB == StartJob("add_note_tags", 1, TagB)

AddsNext ==
    \/ CreateNoteAlone
    \/ CallAddTagA
    \/ CallAddTagB
    \/ GetDatabaseStep
    \/ FetchStep
    \/ UpdateStep
    \/ RefetchStep

JobsNext ==
    \/ CreateNoteTagged
    \/ CallDeleteNote
    \/ CallAddNoteTags
    \/ CallRemoveNoteTags
    \/ GetDatabaseStep
    \/ DeleteStep
    \/ DeleteReturnStep
    \/ FetchStep
    \/ UpdateStep
    \/ RefetchStep

(***************************************************************************)
(* Specifications                                                          *)
(***************************************************************************)
InitDb == DbInit /\ SchIdle /\ TagIdle /\ DalIdle
SpecDb == InitDb /\ [][DbNext]_vars

\* The event loop runs every coroutine that is ready: a caller woken by the
\* release of the lock takes it, and each await of the initialisation
\* completes or raises.  Nothing obliges a caller to call.
DbFairness ==
    \A c \in Callers :
        /\ WF_vars(Acquire(c))
        /\ WF_vars(ConnectOk(c) \/ ConnectFail(c))
        /\ WF_vars(PragmaOk(c) \/ PragmaFail(c))
        /\ WF_vars(SchemaOk(c) \/ SchemaFail(c))
SpecDbFair == InitDb /\ [][DbNext]_vars /\ DbFairness

InitSchemaSpec == DbIdle /\ SchInit /\ TagIdle /\ DalIdle
SpecSchema == InitSchemaSpec /\ [][SchNext]_vars

InitTags == DbIdle /\ SchIdle /\ TagInit /\ DalIdle
SpecTags == InitTags /\ [][TagNext]_vars

InitDal == DbIdle /\ SchIdle /\ TagIdle /\ DalInit /\ JobIdle
SpecDalTags == InitDal /\ [][DalTagsNext]_vars
SpecTaskPrio == InitDal /\ [][TaskPrioNext]_vars
SpecTaskStatus == InitDal /\ [][TaskStatusNext]_vars
SpecTitles == InitDal /\ [][TitlesNext]_vars
SpecUpdates == InitDal /\ [][UpdatesNext]_vars
SpecClock == InitDal /\ [][ClockNext]_vars
SpecIds == InitDal /\ [][IdsNext]_vars
SpecNotFound == InitDal /\ [][NotFoundNext]_vars
SpecJobs == InitDal /\ [][JobsNext]_vars
SpecDeletes == InitDal /\ [][DeletesNext]_vars
SpecAdds == InitDal /\ [][AddsNext]_vars
SpecDue == InitDal /\ [][DueNext]_vars
SpecLists == InitDal /\ [][ListsNext]_vars
SpecTaskList == InitDal /\ [][TaskListNext]_vars
SpecSearch == InitDal /\ [][SearchNext]_vars
SpecHandlers == InitDal /\ [][HandlersNext]_vars
SpecResolve == InitDal /\ [][ResolveNext]_vars
SpecTransitions == InitDal /\ [][TransitionsNext]_vars
SpecValidation == InitDal /\ [][ValidationNext]_vars
SpecTagFilter == InitDal /\ [][TagFilterNext]_vars

(***************************************************************************)
(* Claims about _init_schema                                               *)
(***************************************************************************)
Missing(st, t) == ColumnNames(t) \ st.tab[t].cols
Complete(st, t) == st.tab[t].exists /\ Missing(st, t) = {}
Bare(st, t) == st.tab[t].exists /\ Missing(st, t) = OptionalColumns(t)
LacksOnlyTags(st, t) == st.tab[t].exists /\ Missing(st, t) = {"tags"}
RowsOf(st, t) == st.tab[t].rows

\* C3: run on a store whose notes, events and tasks tables exist but lack
\* every optional column, _init_schema completes without error and leaves
\* each table with all its columns.
C3_LegacyUpgrade ==
    (runs >= 1 /\ \A t \in Tables : Bare(orig, t)) =>
        /\ ~first.err
        /\ \A t \in Tables : Complete(first, t)

\* C4: schema initialisation is idempotent: after a first run that succeeded,
\* a further run raises nothing and leaves tables, columns, indexes and rows
\* exactly as the first run left them.
C4_Idempotent ==
    (runs >= 2 /\ ~first.err) => store = first

C4_Witness ==
    /\ runs = 2
    /\ ~first.err
    /\ LacksOnlyTags(orig, "notes")
    /\ Len(RowsOf(orig, "notes")) >= 1
    /\ orig.idx = {}
    /\ first # orig

\* The store of C5: table t lacks only the tags column and every other
\* table is absent or lacks at most its tags column.
OnlyTagsMissing(st, t) ==
    /\ LacksOnlyTags(st, t)
    /\ \A u \in Tables \ {t} : ~st.tab[u].exists \/ Missing(st, u) \subseteq {"tags"}

\* C5 (as stated): on a store whose notes (or tasks) table lacks only the
\* tags column, the run adds the column, gives every pre-existing row
\* tags = '' and leaves the number of rows and the value of every other
\* column of every pre-existing row unchanged.
C5_Original ==
    \A t \in {"notes", "tasks"} :
        (runs >= 1 /\ OnlyTagsMissing(orig, t)) =>
            /\ ~first.err
            /\ "tags" \in first.tab[t].cols
            /\ Len(RowsOf(first, t)) = Len(RowsOf(orig, t))
            /\ \A i \in DOMAIN RowsOf(orig, t) :
                  /\ RowsOf(first, t)[i]["tags"] = ""
                  /\ \A c \in orig.tab[t].cols :
                        RowsOf(first, t)[i][c] = RowsOf(orig, t)[i][c]

\* C5 (amended): as stated, except that only the non-NULL values of the other
\* columns are left unchanged: a NULL in another column may be replaced by
\* the backfill of the same run (see C6).
C5_Amended ==
    \A t \in {"notes", "tasks"} :
        (runs >= 1 /\ OnlyTagsMissing(orig, t)) =>
            /\ ~first.err
            /\ "tags" \in first.tab[t].cols
            /\ Len(RowsOf(first, t)) = Len(RowsOf(orig, t))
            /\ \A i \in DOMAIN RowsOf(orig, t) :
                  /\ RowsOf(first, t)[i]["tags"] = ""
                  /\ \A c \in orig.tab[t].cols :
                        RowsOf(orig, t)[i][c] # NULL =>
                            RowsOf(first, t)[i][c] = RowsOf(orig, t)[i][c]

C5_Witness ==
    /\ runs >= 1
    /\ OnlyTagsMissing(orig, "notes")
    /\ Len(RowsOf(orig, "notes")) >= 1
    /\ RowsOf(orig, "notes")[1]["pinned"] = "1"
    /\ RowsOf(first, "notes")[1]["tags"] = ""

\* The columns C6 names, per table, with the value a NULL is replaced by
\* ("" means '' ; updated_at takes the row's created_at).
C6_Columns(t) ==
    CASE t = "notes" -> {<<"tags", "">>, <<"pinned", "0">>}
      [] t = "events" -> {<<"all_day", "0">>}
      [] t = "tasks" -> {<<"tags", "">>, <<"status", "pending">>, <<"priority", "3">>}

\* C6: after a successful _init_schema on any starting store no row has a
\* NULL updated_at (a NULL became created_at), NULL tags, pinned, all_day,
\* status or priority (they became '', 0, 0, 'pending', 3), and rows that
\* had non-NULL values keep them.
C6_NoNulls ==
    (runs >= 1 /\ ~first.err) =>
        \A t \in Tables :
            /\ \A i \in DOMAIN RowsOf(first, t) :
                  /\ RowsOf(first, t)[i]["updated_at"] # NULL
                  /\ \A cv \in C6_Columns(t) : RowsOf(first, t)[i][cv[1]] # NULL
            /\ orig.tab[t].exists =>
                  /\ Len(RowsOf(first, t)) = Len(RowsOf(orig, t))
                  /\ \A i \in DOMAIN RowsOf(orig, t) :
                        LET old == RowsOf(orig, t)[i]
                            new == RowsOf(first, t)[i]
                        IN /\ \A c \in DOMAIN old : old[c] # NULL => new[c] = old[c]
                           /\ ("updated_at" \in DOMAIN old /\ old["updated_at"] = NULL)
                                 => new["updated_at"] = old["created_at"]
                           /\ \A cv \in C6_Columns(t) :
                                 (cv[1] \in DOMAIN old /\ old[cv[1]] = NULL)
                                     => new[cv[1]] = cv[2]

C6_Witness ==
    /\ runs >= 1
    /\ ~first.err
    /\ Len(RowsOf(orig, "tasks")) >= 1
    /\ LET old == RowsOf(orig, "tasks")[1] IN
          /\ {"updated_at", "priority", "status", "tags"} \subseteq DOMAIN old
          /\ old["updated_at"] = NULL /\ old["priority"] = NULL
          /\ old["status"] = NULL /\ old["tags"] = "x"
    /\ RowsOf(first, "tasks")[1]["priority"] = "3"

(***************************************************************************)
(* Claims about the tag normaliser                                         *)
(***************************************************************************)
NoDuplicates(l) == \A i, j \in DOMAIN l : l[i] = l[j] => i = j

\* The items of a canonical tags string: none is empty, padded with
\* whitespace or not lowercase, and none occurs twice.
CanonicalItems(l) ==
    /\ NoDuplicates(l)
    /\ \A i \in DOMAIN l : l[i] # <<>> /\ Strip(l[i]) = l[i] /\ Lower(l[i]) = l[i]

Canonical(t) == t = <<>> \/ CanonicalItems(Split(t, ","))

\* C7: for every tags input (a string, or a list whose items may contain
\* ',' or ';') normalize_tags(normalize_tags(x)) = normalize_tags(x), and the
\* output split on ',' has no duplicate, empty, padded or non-lowercase item.
C7_NormalizeIdempotent ==
    /\ tagStep >= 1 => Canonical(tagY)
    /\ tagStep = 2 => tagZ = tagY

\* What does hold: the same, for a string and for a list none of whose items
\* holds ',' or ';'.
HasSeparator(v) ==
    \E i \in DOMAIN v.items : \E j \in DOMAIN v.items[i] : v.items[i][j] \in {",", ";"}

C7_WithoutSeparators ==
    (tagX.kind = "list" /\ HasSeparator(tagX)) \/ C7_NormalizeIdempotent

(***************************************************************************)
(* Claims about the notes and tasks tools                                  *)
(***************************************************************************)
StoredTags == {notes[i].tags : i \in DOMAIN notes} \cup {tasks[i].tags : i \in DOMAIN tasks}

\* C8: after any sequence of create_note, update_note, add_note_tags,
\* remove_note_tags, create_task and update_task with tags given as a string
\* or a list, the stored tags of every note and task are canonical
\* (lowercase, trimmed, no duplicates, joined by ',' only), the list the
\* codec returns is that sequence, and "B, a;b" is stored as b,a.
C8_StoredTagsCanonical ==
    /\ \A t \in StoredTags :
          /\ Canonical(t)
          /\ normalize_tags(StrTags(t)) = t
          /\ CanonicalItems(tags_to_list(t))
          /\ Join(tags_to_list(t), ",") = t
    /\ (/\ ret.op = "create_note" /\ ret.status = "ok"
        /\ ret.args.tags = StrTags(<<"B", ",", " ", "a", ";", "b">>))
          => tags_to_list(notes[ret.id].tags) = << <<"b">>, <<"a">> >>

Clamped(p) == IF p <= 0 THEN 1 ELSE IF p >= 6 THEN 5 ELSE p

\* C9: after any sequence of create_task, update_task and complete_task with
\* arbitrary integer priorities every stored priority is in 1..5; a priority
\* out of range is clamped and never rejected (<= 0 stores 1, >= 6 stores 5,
\* a create without priority stores 3).
C9_PriorityClamped ==
    /\ \A i \in DOMAIN tasks : tasks[i].priority \in 1..5
    /\ (ret.op = "create_task" /\ ret.status = "ok") =>
          tasks[ret.id].priority =
              IF ret.args.priority.given THEN Clamped(ret.args.priority.v) ELSE 3
    /\ (ret.op = "update_task" /\ ret.status = "ok" /\ ret.args.priority.given) =>
          tasks[ret.id].priority = Clamped(ret.args.priority.v)
    /\ (ret.op = "create_task" /\ ret.status = "error") => ret.error = "storage"
    /\ (ret.op = "update_task" /\ ret.status = "error" /\ ret.args.priority.given) =>
          \/ ret.error = "storage"
          \/ ret.error = "task not found" /\ ret.id \notin DOMAIN tasks

C9_Witness ==
    /\ ret.op = "update_task" /\ ret.status = "ok"
    /\ ret.args.priority.given /\ ret.args.priority.v <= 0
    /\ tasks[ret.id].priority = 1
    /\ \E i \in DOMAIN tasks : i # ret.id /\ tasks[i].priority = 5

InvalidStatusCall(r) ==
    /\ r.op \in {"create_task", "update_task"}
    /\ r.args.status.given
    /\ Replace(Lower(Strip(r.args.status.v)), " ", "_") \notin VALID_STATUSES

CreateOps == {"create_note", "create_event", "create_task"}
UpdateOps == {"update_note", "update_event", "update_task"}
RowsSame == notes' = notes /\ tasks' = tasks /\ events' = events /\ seq' = seq

WhitespaceOnly(s) == \A i \in DOMAIN s : s[i] \in Whitespace

BlankTitleCall(r) ==
    /\ r.op \in CreateOps \cup UpdateOps
    /\ r.args.title.given
    /\ WhitespaceOnly(r.args.title.v)

NoFieldsCall(r) ==
    /\ r.op \in UpdateOps
    /\ \A f \in DOMAIN r.args :
          IF f = "tags" THEN r.args.tags.kind = "none" ELSE ~r.args[f].given

\* C12: an update call (update_note, update_event, update_task) that supplies
\* no field at all always returns the error 'no fields to update' and causes
\* zero storage writes, in every state of the system, including before the
\* storage connection has been initialized and when the initialization fails:
\* no row changes (so no updated_at changes) and the connection is not opened.
C12_NoFieldsNoWrite ==
    [][NoFieldsCall(ret') =>
          /\ ret'.status = "error"
          /\ ret'.error = "no fields to update"
          /\ RowsSame
          /\ db' = db]_vars

\* What an update that supplies the field stores in it, and what stays
\* otherwise.
Kept(given, new, old, value) == new = (IF given THEN value ELSE old)

OthersSame(t, tNew, id) ==
    /\ DOMAIN tNew = DOMAIN t
    /\ \A j \in DOMAIN t \ {id} : tNew[j] = t[j]

Stamped(t, tNew, id) ==
    /\ id \in DOMAIN t
    /\ tNew[id].created_at = t[id].created_at
    /\ tNew[id].updated_at = clock

NoteUpdated(id, a) ==
    /\ OthersSame(notes, notes', id) /\ Stamped(notes, notes', id)
    /\ tasks' = tasks /\ events' = events /\ seq' = seq
    /\ Kept(a.title.given, notes'[id].title, notes[id].title, a.title.v)
    /\ Kept(a.text.given, notes'[id].content, notes[id].content, a.text.v)
    /\ Kept(a.pinned.given, notes'[id].pinned, notes[id].pinned, a.pinned.v)
    /\ Kept(a.tags.kind # "none", notes'[id].tags, notes[id].tags,
            normalize_tags(a.tags))

EventUpdated(id, a) ==
    /\ OthersSame(events, events', id) /\ Stamped(events, events', id)
    /\ tasks' = tasks /\ notes' = notes /\ seq' = seq
    /\ \A f \in {"title", "start", "end", "location", "description", "all_day"} :
          Kept(a[f].given, events'[id][f], events[id][f], a[f].v)

TaskUpdated(id, a) ==
    /\ OthersSame(tasks, tasks', id) /\ Stamped(tasks, tasks', id)
    /\ notes' = notes /\ events' = events /\ seq' = seq
    /\ Kept(a.title.given, tasks'[id].title, tasks[id].title, a.title.v)
    /\ Kept(a.text.given, tasks'[id].description, tasks[id].description, a.text.v)
    /\ Kept(a.due_at.given, tasks'[id].due_at, tasks[id].due_at,
            IF WhitespaceOnly(a.due_at.v) THEN NullText ELSE Strip(a.due_at.v))
    /\ Kept(a.priority.given, tasks'[id].priority, tasks[id].priority,
            IF a.priority.v < 1 THEN 1 ELSE IF a.priority.v > 5 THEN 5
            ELSE a.priority.v)
    /\ Kept(a.tags.kind # "none", tasks'[id].tags, tasks[id].tags,
            normalize_tags(a.tags))
    /\ Kept(a.status.given, tasks'[id].status, tasks[id].status,
            Replace(Lower(Strip(a.status.v)), " ", "_"))

\* C13: a successful update of an existing record changes exactly the fields
\* that were supplied (each to its validated/normalized value) plus
\* updated_at; every field not supplied, the record's id and its created_at,
\* and every other record of every entity are left unchanged.
C13_UpdateFrame ==
    [][(clock' = clock /\ ret'.op \in UpdateOps /\ ret'.status = "ok") =>
          /\ ret'.op = "update_note" => NoteUpdated(ret'.id, ret'.args)
          /\ ret'.op = "update_event" => EventUpdated(ret'.id, ret'.args)
          /\ ret'.op = "update_task" => TaskUpdated(ret'.id, ret'.args)]_vars

\* update_task of due_at, priority and status on a task created earlier,
\* next to two notes and an event that were themselves updated
C13_Witness ==
    /\ ret.op = "update_task" /\ ret.status = "ok"
    /\ ret.args.priority.given /\ ~ret.args.title.given
    /\ tasks[ret.id].title = <<"u">>
    /\ tasks[ret.id].priority = 5
    /\ tasks[ret.id].due_at = <<"5">>
    /\ tasks[ret.id].status = <<"d", "o", "n", "e">>
    /\ tasks[ret.id].created_at < tasks[ret.id].updated_at
    /\ DOMAIN notes = {1, 2} /\ DOMAIN events = {1}
    /\ notes[1].tags = <<"b", ",", "a">> /\ notes[1].title = TitleT
    /\ notes[2].title = <<"u">> /\ notes[2].tags = <<>>
    /\ events[1].start = <<"3">> /\ events[1].title = TitleT

MutationOps == UpdateOps \cup {"add_note_tags", "remove_note_tags", "complete_task"}

\* the same, in the next state
TableOfNext(op) ==
    IF op \in {"create_note", "update_note", "delete_note", "add_note_tags",
               "remove_note_tags"} THEN notes'
    ELSE IF op \in {"create_event", "update_event", "delete_event"} THEN events'
    ELSE tasks'

StampsKept(t, tNew) ==
    \A i \in DOMAIN t \cap DOMAIN tNew :
        /\ tNew[i].created_at = t[i].created_at
        /\ tNew[i].updated_at >= t[i].updated_at

\* C14: the storage clock never decreasing, every record has created_at =
\* updated_at immediately after its create; over any sequence of update,
\* add_note_tags, remove_note_tags and complete_task calls its created_at
\* never changes, its updated_at never decreases, and every successful
\* mutation sets updated_at to the current clock value.
C14_Timestamps ==
    [][/\ clock' >= clock
       /\ StampsKept(notes, notes') /\ StampsKept(events, events')
       /\ StampsKept(tasks, tasks')
       /\ (clock' = clock /\ ret'.status = "ok" /\ ret'.op \in CreateOps) =>
             /\ ret'.id \in DOMAIN TableOfNext(ret'.op) \ DOMAIN TableOf(ret'.op)
             /\ TableOfNext(ret'.op)[ret'.id].created_at = clock
             /\ TableOfNext(ret'.op)[ret'.id].updated_at = clock
       /\ (clock' = clock /\ ret'.status = "ok" /\ ret'.op \in MutationOps) =>
             /\ ret'.id \in DOMAIN TableOfNext(ret'.op)
             /\ TableOfNext(ret'.op)[ret'.id].updated_at = clock]_vars

\* a note created before the clock moved and retagged after it, a task
\* completed after it, and a record created after it
C14_Witness ==
    /\ clock > 0
    /\ \E i \in DOMAIN notes :
          notes[i].created_at = 0 /\ notes[i].updated_at = clock
          /\ notes[i].tags = <<"a">>
    /\ \E i \in DOMAIN tasks :
          tasks[i].created_at = 0 /\ tasks[i].updated_at = clock
          /\ tasks[i].status = <<"d", "o", "n", "e">>
    /\ \E i \in DOMAIN events :
          events[i].created_at = clock /\ events[i].updated_at = clock
    /\ ret.op \in {"add_note_tags", "remove_note_tags"} /\ ret.status = "ok"

\* update or complete_task of an id without a row, with a valid field
MissingRowCall(r) ==
    /\ r.op \in UpdateOps \cup {"complete_task"}
    /\ r.id \notin DOMAIN TableOf(r.op)
    /\ ~NoFieldsCall(r)
    /\ ~BlankTitleCall(r)
    /\ ~InvalidStatusCall(r)

\* C17: update_note, update_event, update_task and complete_task on an id
\* with no matching row, at least one valid field being supplied, return the
\* error '<entity> not found' and leave storage unchanged: no row is created,
\* and the row count and every row of every table are as before (a call
\* whose get_database raises reports that failure instead).
C17_NotFoundNoEffect ==
    [][MissingRowCall(ret') =>
          /\ RowsSame
          /\ ret'.status = "error"
          /\ ret'.error =
                IF db' = 0 THEN "storage"
                ELSE IF ret'.op = "update_note" THEN "note not found"
                ELSE IF ret'.op = "update_event" THEN "event not found"
                ELSE "task not found"]_vars

\* update_event with only start supplied, on an id that has no row, while
\* every table holds a row
C17_Witness ==
    /\ ret.op = "update_event" /\ ret.id \notin DOMAIN events
    /\ ret.args.start.given /\ ~ret.args.title.given
    /\ ret.status = "error" /\ ret.error = "event not found"
    /\ DOMAIN events # {} /\ DOMAIN notes # {} /\ DOMAIN tasks # {}

(***************************************************************************)
(* Claims about ids and delete                                             *)
(***************************************************************************)
EntityTables == {"notes", "events", "tasks"}
Distinct(s) == \A i, j \in DOMAIN s : i # j => s[i] # s[j]

\* C15: over any sequence of create and delete calls on one entity kind the
\* ids returned by successful creates are pairwise distinct: an id is never
\* assigned again after its record was deleted (the highest id ever assigned
\* included), and no update changes a record's id.
C15_IdsNeverReused ==
    /\ [](\A t \in EntityTables : Distinct(hist.created[t]))
    /\ [][ret'.op \in UpdateOps =>
             /\ DOMAIN notes' = DOMAIN notes
             /\ DOMAIN events' = DOMAIN events
             /\ DOMAIN tasks' = DOMAIN tasks
             /\ hist' = hist]_vars

\* the note with the highest id ever assigned was deleted, the table was
\* empty, and the next create_note returned a new id
C15_Witness ==
    /\ ret.op = "create_note" /\ ret.status = "ok" /\ ret.id = 2
    /\ hist.created.notes = <<1, 2>>
    /\ hist.deleted.notes = <<1>>
    /\ DOMAIN notes = {2}

DeleteJobs(op) == {c \in DOMAIN jobs : jobs[c].op = op /\ jobs[c].id = 1}
Succeeded(op) == {c \in DeleteJobs(op) : jobs[c].pc = "returned" /\ jobs[c].status = "ok"}

\* C16: delete on an id with no matching row returns a not-found error and
\* changes nothing; for any id, delete returns success at most once over the
\* whole execution: after a successful delete every later delete of that id
\* returns not-found, and of two concurrent deletes of the same existing id
\* exactly one returns success.
C16_DeleteOnce ==
    /\ [](/\ \A t \in EntityTables : Distinct(hist.deleted[t])
          /\ \A op \in DeleteOps :
                /\ Cardinality(Succeeded(op)) <= 1
                \* a delete that begins after a successful one returned
                /\ \A c \in DeleteJobs(op) :
                      (jobs[c].pc = "returned" /\ jobs[c].late)
                         => jobs[c].error = NotFound(op)
                \* deletes that began while the row was there
                /\ ((\E c \in DeleteJobs(op) : jobs[c].existed)
                    /\ \A c \in DeleteJobs(op) : jobs[c].pc = "returned")
                      => Cardinality(Succeeded(op)) = 1
                /\ \A c \in DeleteJobs(op) :
                      (jobs[c].pc = "returned" /\ jobs[c].status = "error")
                         => jobs[c].error \in {NotFound(op), "storage"})
    /\ [][\A c \in DOMAIN jobs :
             (jobs[c].pc = "delete" /\ jobs'[c].pc = "rowcount"
              /\ jobs[c].id \notin DOMAIN TableOf(jobs[c].op)) =>
                /\ notes' = notes /\ events' = events /\ tasks' = tasks
                /\ jobs'[c].rowcount = 0]_vars

\* two deletes of note 1 that both began while it was there, and a third
\* that began after one of them had returned success
C16_Witness ==
    /\ Len(jobs) = 3
    /\ \A c \in 1..3 : jobs[c].op = "delete_note" /\ jobs[c].pc = "returned"
    /\ jobs[1].existed /\ jobs[2].existed /\ jobs[3].late
    /\ jobs[1].error = "note not found" /\ jobs[2].status = "ok"
    /\ jobs[3].error = "note not found"
    /\ hist.deleted.notes = <<1>>

(***************************************************************************)
(* Claims about concurrent calls of the notes tools                        *)
(***************************************************************************)
RetagOps == {"add_note_tags", "remove_note_tags"}

\* C18: add_note_tags and remove_note_tags return the error 'note not found'
\* whenever the note does not exist when their write is applied, in every
\* interleaving with a concurrent delete_note of the same id (a delete that
\* lands between their read and their write included); they never return a
\* success payload whose note is absent/null.
C18_RetagNotFound ==
    \A c \in DOMAIN jobs :
        (jobs[c].op \in RetagOps /\ jobs[c].pc = "returned") =>
            /\ (jobs[c].rowcount = 0 /\ jobs[c].error # "storage") =>
                  jobs[c].status = "error" /\ jobs[c].error = "note not found"
            /\ jobs[c].status = "ok" => jobs[c].note = "note"

(***************************************************************************)
(* Claims about the list tools                                             *)
(***************************************************************************)
ListOps == {"list_notes", "list_events", "list_tasks"}

MaxLimitOf(op) ==
    CASE op = "list_notes" -> 200
      [] op = "list_events" -> 500
      [] op = "list_tasks" -> 200

\* the rows a list call selects from, before LIMIT and OFFSET
Matching(r) ==
    CASE r.op = "list_notes" ->
             {i \in DOMAIN notes : r.args.pinned_only => notes[i].pinned}
      [] r.op = "list_events" -> DOMAIN events
      [] r.op = "list_tasks" -> DOMAIN tasks

ListedOk == ret.op \in ListOps /\ ret.status = "ok"

\* the limit bound to the query is the limit given, brought into [1, max];
\* no more records than that are returned, and count is their number
LimitClamped ==
    /\ ret.lim \in 1..MaxLimitOf(ret.op)
    /\ ret.args.limit \in 1..MaxLimitOf(ret.op) => ret.lim = ret.args.limit
    /\ ret.args.limit < 1 => ret.lim = 1
    /\ ret.args.limit > MaxLimitOf(ret.op) => ret.lim = MaxLimitOf(ret.op)
    /\ Len(ret.rows) <= ret.lim
    /\ ret.count = Len(ret.rows)
    /\ \A i, j \in DOMAIN ret.rows : i # j => ret.rows[i] # ret.rows[j]
    /\ \A i \in DOMAIN ret.rows : ret.rows[i] \in Matching(ret)

\* C19 as stated: for every integer limit and offset passed to list_notes,
\* list_events or list_tasks, the number of records returned is at most the
\* limit clamped into [1, max], count equals the number of records returned,
\* and next_offset equals offset + count.
C19_NextOffsetRaw ==
    ListedOk => LimitClamped /\ ret.next_offset = ret.args.offset + ret.count

\* C19, amended: as above, but next_offset equals max(0, offset) + count, and
\* the page holds every selected row from position max(0, offset) on, up to
\* the clamped limit.
C19_Pages ==
    ListedOk =>
        LET skipped == IF ret.args.offset < 0 THEN 0 ELSE ret.args.offset
            left == Cardinality(Matching(ret)) - skipped
        IN
        /\ LimitClamped
        /\ ret.next_offset = skipped + ret.count
        /\ ret.count = IF left < 0 THEN 0
                       ELSE IF left < ret.lim THEN left ELSE ret.lim

\* list_notes(limit=0, offset=-1) over two notes returned one of them and
\* next_offset 1
C19_Witness ==
    /\ ret.op = "list_notes" /\ ret.status = "ok"
    /\ ret.args.limit = 0 /\ ret.args.offset = -1 /\ ~ret.args.pinned_only
    /\ Cardinality(DOMAIN notes) = 2
    /\ ret.count = 1 /\ ret.next_offset = 1

\* row a is due no later than row b: a dated row before an undated one, and
\* of two dated rows the one whose due_at is the smaller text
DueNoLater(a, b) ==
    /\ a.due_at = NullText => b.due_at = NullText
    /\ (a.due_at # NullText /\ b.due_at # NullText) => ~TextLess(b.due_at, a.due_at)

\* rows a and b, in this order, agree with the ordering rule of list_tasks
InTaskOrder(a, b) ==
    /\ DueNoLater(a, b)
    /\ a.due_at = b.due_at => a.priority >= b.priority
    /\ (a.due_at = b.due_at /\ a.priority = b.priority) =>
           a.updated_at >= b.updated_at

\* the status a list_tasks call asked for, as stored
Asked(r) == Replace(Lower(Strip(r.args.status.v)), " ", "_")
WithStatus(st) == {i \in DOMAIN tasks : tasks[i].status = st}

ListedByStatus ==
    /\ ret.op = "list_tasks" /\ ret.status = "ok"
    /\ ret.args.status.given /\ ret.args.status.v # <<>>

\* C20: list_tasks(status=s) returns exactly the stored tasks whose status
\* equals s (up to the limit), ordered with tasks that have a due date first
\* by due date ascending, tasks without a due date last, ties broken by
\* priority descending and then updated_at descending; in particular after
\* creating five tasks and completing exactly two of them,
\* list_tasks(status='done') returns exactly those two in that order.
C20_ListByStatus ==
    ListedByStatus =>
        LET asked == WithStatus(Asked(ret))
            returned == {ret.rows[i] : i \in DOMAIN ret.rows}
        IN
        /\ returned \subseteq asked
        /\ Cardinality(returned) = Len(ret.rows)
        /\ Len(ret.rows) = IF Cardinality(asked) < ret.args.limit
                           THEN Cardinality(asked) ELSE ret.args.limit
        /\ \A i, j \in DOMAIN ret.rows :
               i < j => InTaskOrder(tasks[ret.rows[i]], tasks[ret.rows[j]])
        \* rows left out by the limit come after the rows returned
        /\ \A i \in returned, j \in asked \ returned : InTaskOrder(tasks[i], tasks[j])

\* five tasks were created, exactly two of them (one dated, one not) were
\* completed, and list_tasks(status='done') returned those two, the dated
\* one first
C20_Witness ==
    /\ ListedByStatus /\ ret.args.status.v = Done
    /\ Cardinality(DOMAIN tasks) = 5
    /\ Cardinality(WithStatus(Done)) = 2
    /\ Len(ret.rows) = 2
    /\ tasks[ret.rows[1]].due_at # NullText
    /\ tasks[ret.rows[2]].due_at = NullText

(***************************************************************************)
(* Claims about the search tools                                           *)
(***************************************************************************)
SearchOps == {"search_notes", "search_events", "search_tasks"}

\* row i of the searched table comes ahead of row j in the default list
\* ordering of that table
ListedAhead(op, i, j) ==
    CASE op = "search_notes" -> NoteBefore(notes[i], notes[j])
      [] op = "search_events" -> EventBefore(events[i], events[j])
      [] op = "search_tasks" -> TaskBefore(tasks[i], tasks[j])

\* C21: for each entity, the records returned by search appear in the same
\* relative order as that entity's default list ordering (notes pinned
\* first, then updated_at descending, then created_at descending; events by
\* start ascending; tasks dated-first by due date ascending, then priority
\* descending, then updated_at descending); an empty or whitespace-only
\* query is rejected with 'query cannot be empty' without reading storage.
C21_SearchInListOrder ==
    [][ret'.op \in SearchOps /\ clock' = clock =>
         /\ WhitespaceOnly(ret'.args.query) =>
               /\ ret'.status = "error" /\ ret'.error = "query cannot be empty"
               /\ db' = db
         /\ ret'.status = "ok" =>
               \A i, j \in DOMAIN ret'.rows :
                   i < j => ~ListedAhead(ret'.op, ret'.rows[j], ret'.rows[i])
      ]_vars

(***************************************************************************)
(* Claims about how calls end                                              *)
(***************************************************************************)
HandlerNames == {h.name : h \in NotesTools \cup TasksTools \cup EventsTools \cup Resources}

\* C22: every notes/events/tasks tool call returns either a success payload
\* or a record {status: 'error', error: <message>} and never raises to its
\* caller, in particular when get_database fails to initialize or a storage
\* statement fails; every read-only resource lookup likewise returns either
\* its data payload or {error: <message>}.
C22_NeverRaises ==
    ret.op \in HandlerNames =>
        /\ ret.status \in {"ok", "error"}
        /\ ret.status = "error" <=> ret.error # ""
        /\ ret.at \in {"get_database", "statement"} => ret.status = "error"

\* create_note and note_by_id each returned an error record for a statement
\* that raised, after get_database had succeeded
C22_Witness ==
    /\ ret.op \in {"create_note", "note_by_id"}
    /\ ret.at = "statement" /\ ret.status = "error" /\ db # 0

(***************************************************************************)
(* Claims about _resolve_db_path                                           *)
(***************************************************************************)
\* C23: storage location resolution (_resolve_db_path) never raises and
\* always returns a result by this chain: the in-memory marker if ':memory:'
\* is configured; otherwise the configured path made absolute if its parent
\* directory can be created; otherwise the fixed path under the user's home
\* directory if that directory can be created; otherwise the in-memory
\* marker.  Each later step is reached only if every earlier step failed.
C23_FallbackChain ==
    ret.op = "_resolve_db_path" =>
        LET configured == IF Strip(ret.raw_path) = <<>> THEN DefaultPath
                          ELSE Strip(ret.raw_path)
            made == configured # Memory /\ ret.env.mkdir
            homeMade == ret.env.home /\ ret.env.mkdir_home
        IN
        /\ ret.result # <<"raise">>
        /\ configured = Memory => ret.result = Memory
        /\ (configured # Memory /\ made) =>
              /\ Head(ret.result) = "/"
              /\ ret.result \notin {Memory, HomePath}
        /\ (configured # Memory /\ ~made /\ homeMade) => ret.result = HomePath
        /\ (configured # Memory /\ ~made /\ ~homeMade) => ret.result = Memory

(***************************************************************************)
(* Claims about task status                                                *)
(***************************************************************************)
\* the call that has just returned reached an existing task: its
\* get_database did not raise
ReachedTask(op) ==
    /\ ret'.op = op /\ clock' = clock
    /\ ret'.id \in DOMAIN tasks /\ ret'.error # "storage"

\* C24: task status has no enforced transition graph: from each of the four
\* statuses, update_task can move an existing task to each of the four
\* statuses; complete_task on an existing task in any status sets status to
\* done, bumps updated_at and leaves title, description, priority, due_at,
\* tags and created_at unchanged, and applying complete_task twice leaves
\* status done.
C24_AnyTransition ==
    [][ /\ (ReachedTask("update_task") /\ ret'.args.status.given
               /\ ret'.args.status.v \in VALID_STATUSES) =>
              /\ ret'.status = "ok"
              /\ tasks'[ret'.id].status = ret'.args.status.v
        /\ ReachedTask("complete_task") =>
              /\ ret'.status = "ok"
              /\ tasks'[ret'.id].status = <<"d", "o", "n", "e">>
              /\ tasks'[ret'.id].updated_at = clock
              /\ tasks'[ret'.id].updated_at >= tasks[ret'.id].updated_at
              /\ \A f \in {"title", "description", "priority", "due_at", "tags",
                           "created_at"} :
                    tasks'[ret'.id][f] = tasks[ret'.id][f]
      ]_vars

\* a task created earlier was moved to canceled by update_task at a later time
C24_Witness ==
    /\ ret.op = "update_task" /\ ret.status = "ok" /\ ret.id = 1
    /\ tasks[1].status = <<"c", "a", "n", "c", "e", "l", "e", "d">>
    /\ tasks[1].updated_at > tasks[1].created_at

(***************************************************************************)
(* Claims about the order of validation and get_database                   *)
(***************************************************************************)
ValidationErrors ==
    {"title cannot be empty", "invalid status", "query cannot be empty",
     "no fields to update"}

\* the arguments of call r do not pass the checks of its tool
FailsValidation(r) ==
    \/ BlankTitleCall(r)
    \/ InvalidStatusCall(r)
    \/ NoFieldsCall(r)
    \/ /\ r.op = "list_tasks" /\ r.args.status.given /\ r.args.status.v # <<>>
       /\ Replace(Lower(Strip(r.args.status.v)), " ", "_") \notin VALID_STATUSES
    \/ r.op \in SearchOps /\ WhitespaceOnly(r.args.query)

\* C25: in every repository operation, input validation happens before the
\* storage connection is obtained: a call that fails validation (empty
\* title, invalid status, empty search query, no fields to update) returns
\* its validation error without ever calling get_database, so it never
\* triggers connection opening, schema creation or migration writes.
C25_ValidateBeforeConnect ==
    [][FailsValidation(ret') =>
          /\ ret'.status = "error"
          /\ ret'.error \in ValidationErrors
          /\ db' = db]_vars

(***************************************************************************)
(* Claims about the lookups by tag                                         *)
(***************************************************************************)
\* the table whose rows a lookup by tag returns
TaggedTable(op) == IF op = "tasks_by_tag" THEN tasks ELSE notes

\* the items of a canonical tag string
TagItems(tags) == {Split(tags, ",")[i] : i \in DOMAIN Split(tags, ",")} \ {<<>>}

ByTag ==
    /\ ret.op \in {"list_notes", "notes_by_tag", "tasks_by_tag"}
    /\ ret.status = "ok"
    /\ ret.args.tag.given /\ ret.args.tag.v # <<>>

\* C26: for every non-empty tag argument t, list_notes(tag=t) and the
\* notes-by-tag / tasks-by-tag lookups return only records whose canonical
\* tag list contains the item t.strip().lower(); in particular a record with
\* no tags is never returned by a tag-filtered lookup, also when t consists
\* only of whitespace.
C26_OnlyTagged ==
    ByTag =>
        \A i \in DOMAIN ret.rows :
            /\ TaggedTable(ret.op)[ret.rows[i]].tags # <<>>
            /\ Lower(Strip(ret.args.tag.v)) \in
                   TagItems(TaggedTable(ret.op)[ret.rows[i]].tags)

(***************************************************************************)
(* merge_tags and remove_tags applied to every canonical existing string   *)
(* and every bounded input, once and again.                                *)
(***************************************************************************)
ExistingChars == {"a", "b", ","}
ExistingTags == {t \in StringsOver(ExistingChars, MaxStrLen) : Canonical(t)}

MergeInit ==
    /\ tagX \in TagInputs
    /\ tagY \in ExistingTags
    /\ tagZ = <<>>
    /\ tagStep = 0

\* tagZ = merge_tags(e, n)
Merge ==
    /\ tagStep = 0
    /\ tagZ' = merge_tags(tagY, tagX)
    /\ tagStep' = 1
    /\ UNCHANGED <<tagX, tagY>>
    /\ UNCHANGED notTagVars

\* tagZ = merge_tags(merge_tags(e, n), n)
MergeAgain ==
    /\ tagStep = 1
    /\ tagZ' = merge_tags(tagZ, tagX)
    /\ tagStep' = 2
    /\ UNCHANGED <<tagX, tagY>>
    /\ UNCHANGED notTagVars

\* tagZ = remove_tags(e, n)
Remove ==
    /\ tagStep = 0
    /\ tagZ' = remove_tags(tagY, tagX)
    /\ tagStep' = 3
    /\ UNCHANGED <<tagX, tagY>>
    /\ UNCHANGED notTagVars

\* tagZ = remove_tags(merge_tags(e, n), n)
RemoveMerged ==
    /\ tagStep = 1
    /\ tagZ' = remove_tags(tagZ, tagX)
    /\ tagStep' = 4
    /\ UNCHANGED <<tagX, tagY>>
    /\ UNCHANGED notTagVars

MergeNext ==
    \/ Merge
    \/ MergeAgain
    \/ Remove
    \/ RemoveMerged

InitMerge == DbIdle /\ SchIdle /\ MergeInit /\ DalIdle
SpecMerge == InitMerge /\ [][MergeNext]_vars

\* l without the items of the set s
Without(l, s) == SelectSeq(l, LAMBDA x : x \notin s)

\* the items of a tag string, in their order: what stands between its
\* commas, less surrounding whitespace, where that is not empty
ItemsOf(t) ==
    LET parts == Split(t, ",") IN
    Without([i \in DOMAIN parts |-> Strip(parts[i])], {<<>>})

\* l with the first occurrence of each item only
RECURSIVE FirstOnly(_)
FirstOnly(l) ==
    IF l = <<>> THEN <<>>
    ELSE <<Head(l)>> \o FirstOnly(Without(Tail(l), {Head(l)}))

AsSet(l) == {l[i] : i \in DOMAIN l}

\* e followed by what n adds; e less what n names
MergedAsClaimed ==
    Join(ItemsOf(tagY) \o
         FirstOnly(Without(ItemsOf(normalize_tags(tagX)), AsSet(ItemsOf(tagY)))), ",")
RemovedAsClaimed ==
    Join(Without(ItemsOf(tagY), AsSet(ItemsOf(normalize_tags(tagX)))), ",")

\* C27: for a canonical existing tag string e and any raw input n:
\* merge_tags(e, n) lists the items of e in their order followed by the items
\* of normalize_tags(n) not already in e, without duplicates; remove_tags(e, n)
\* lists exactly the items of e that are not in normalize_tags(n), in their
\* original order; merge_tags(merge_tags(e, n), n) = merge_tags(e, n); and
\* remove_tags(merge_tags(e, n), n) = remove_tags(e, n).
C27_MergeRemove ==
    /\ tagStep = 1 => tagZ = MergedAsClaimed
    /\ tagStep = 2 => tagZ = MergedAsClaimed /\ tagZ = merge_tags(tagY, tagX)
    /\ tagStep = 3 => tagZ = RemovedAsClaimed
    /\ tagStep = 4 => tagZ = RemovedAsClaimed /\ tagZ = remove_tags(tagY, tagX)

\* merge_tags("b", "A,b") gave "b,a"
C27_Witness ==
    /\ tagStep = 1
    /\ tagY = <<"b">>
    /\ tagX = StrTags(<<"A", ",", "b">>)
    /\ tagZ = <<"b", ",", "a">>

(***************************************************************************)
(* Claims about a failed initialisation                                    *)
(***************************************************************************)
InCall(c) == pc[c] \in {"waiting", "connect", "pragma", "schema"}
Ended28(c) == pc[c] \in {"returned", "raised"}

\* C28: if get_database's initialization fails (connection cannot be opened,
\* a pragma fails, or schema creation/migration fails), the exception
\* propagates to that caller, no handle is cached, and the initialization
\* lock is released: no concurrent or later caller blocks forever, no caller
\* ever receives a handle whose schema initialization did not complete, and a
\* later get_database call starts a fresh initialization that can succeed.
C28_FailedInit ==
    /\ [](\A c \in Callers :
            /\ pc[c] = "raised" => got[c] = 0
            /\ got[c] # 0 => got[c] = db /\ schemaDone >= 1)
    /\ [](db # 0 => nStored = 1 /\ schemaDone = 1)
    /\ []((\A c \in Callers : pc[c] \notin {"connect", "pragma", "schema"}) => ~db_lock)
    /\ [][\A c \in Callers :
            (pc'[c] = "raised" /\ pc[c] # "raised") =>
                db = 0 /\ db' = 0 /\ ~db_lock']_vars
    /\ \A c \in Callers : InCall(c) ~> Ended28(c)

\* two initialisations failed, the third caller started a fresh one after
\* having waited for the lock, and it succeeded
C28_Witness ==
    /\ nFail = 2
    /\ \E c \in Callers :
          /\ pc[c] = "returned" /\ waited[c] /\ started[c]
          /\ got[c] = db /\ db # 0
          /\ \A d \in Callers \ {c} : pc[d] = "raised"

(***************************************************************************)
(* Claims about concurrent add_note_tags calls.                            *)
(***************************************************************************)
\* two calls were made on note 1, which was there when each began, both
\* have returned a success payload, and nothing else was called
BothAdded ==
    /\ Len(jobs) = 2
    /\ \A c \in DOMAIN jobs :
          /\ jobs[c].op = "add_note_tags" /\ jobs[c].id = 1 /\ jobs[c].existed
          /\ jobs[c].pc = "returned" /\ jobs[c].status = "ok"
    /\ 1 \in DOMAIN notes

\* the normalized tags a call supplied
TagsOfCall(c) == AsSet(ItemsOf(normalize_tags(jobs[c].tags)))

NonBlankText(s) == s # NullText /\ \E i \in DOMAIN s : s[i] \notin Whitespace
DueStored(id) == tasks[id].due_at = NullText \/ NonBlankText(tasks[id].due_at)
BlankDue(a) == a.due_at.given /\ WhitespaceOnly(a.due_at.v)
Wrote(op) == ret'.op = op /\ ret'.status = "ok" /\ clock' = clock

\* C30: after any create_task and update_task calls the stored due_at of
\* every task is NULL or holds a character that is not whitespace: a create
\* with due_at absent, empty or blank stores NULL, an update with due_at
\* empty or blank stores NULL, an update without due_at leaves it as it was;
\* and in a list_tasks result every task ahead of a dated task has a due
\* date that is not blank.
C30_DueNullOrNonBlank ==
    /\ [](\A id \in DOMAIN tasks : DueStored(id))
    /\ [][ /\ (Wrote("create_task")
                 /\ (~ret'.args.due_at.given \/ BlankDue(ret'.args))) =>
                 tasks'[ret'.id].due_at = NullText
           /\ (Wrote("update_task") /\ BlankDue(ret'.args)) =>
                 tasks'[ret'.id].due_at = NullText
           /\ (Wrote("update_task") /\ ~ret'.args.due_at.given) =>
                 tasks'[ret'.id].due_at = tasks[ret'.id].due_at
           /\ Wrote("list_tasks") =>
                 \A i, j \in DOMAIN ret'.rows :
                     (i < j /\ tasks[ret'.rows[j]].due_at # NullText) =>
                         NonBlankText(tasks[ret'.rows[i]].due_at)
         ]_vars

\* an update with a blank due date has emptied the due date of one task
\* while another keeps the padded due date it was created with
C30_Witness ==
    /\ ret.op = "update_task" /\ ret.status = "ok" /\ BlankDue(ret.args)
    /\ ret.args.due_at.v # <<>>
    /\ tasks[ret.id].due_at = NullText
    /\ \E id \in DOMAIN tasks : tasks[id].due_at = <<" ", "2">>

(***************************************************************************)
(* Claims about get_database                                               *)
(***************************************************************************)
Initialising == {c \in Callers : pc[c] \in {"connect", "pragma", "schema"}}
Starters == {c \in Callers : started[c]}

\* C1: with any number of concurrent first callers, when initialisation
\* succeeds _init_schema runs exactly once, at most one connection is ever
\* stored in _db, and every caller that returns (those that waited during the
\* initialisation and those that came later) holds that same handle.
C1_SingleInit ==
    /\ nStored <= 1
    /\ schemaDone <= 1
    /\ (nFail = 0 => schemaRuns <= 1)
    /\ (db # 0 => schemaDone = 1 /\ nStored = 1)
    /\ \A c \in Callers : pc[c] = "returned" => got[c] # 0 /\ got[c] = db

C1_Witness ==
    /\ nFail = 0
    /\ \A c \in Callers : pc[c] = "returned"
    /\ \E c1, c2, c3 \in Callers :
          /\ started[c1]
          /\ waited[c2] /\ ~started[c2]
          /\ ~waited[c3] /\ ~started[c3]

\* C2 (as stated): the initialisation sequence is started at most once in
\* total; a caller that waited on the lock never starts one of its own,
\* whatever the outcome of the winner's attempt.
C2_Original ==
    /\ Cardinality(Starters) <= 1
    /\ \A c \in Callers : waited[c] => ~started[c]

\* C2 (amended): at most one initialisation sequence is in progress at a time
\* and every sequence after the first is preceded by a failed one: a caller
\* that waited on the lock starts a sequence of its own only if _db is still
\* unset when it gets the lock, that is only after a failed attempt.
C2_Amended ==
    /\ Cardinality(Initialising) <= 1
    /\ Cardinality(Starters) <= 1 + nFail
    /\ \A c \in Callers : waited[c] /\ started[c] => nFail >= 1
    /\ (db # 0 => Initialising = {})

C2_Witness ==
    \E c, d \in Callers :
        /\ waited[c] /\ started[c] /\ pc[c] = "returned"
        /\ waited[d] /\ ~started[d] /\ pc[d] = "returned" /\ got[d] = got[c]

====
